---- MODULE Spec2Model ----
(***************************************************************************)
(* A model of the policy extractor: the text acquisition rule of           *)
(* pdf_processor.py, the response parser of ai_extractor.py, the validator *)
(* of schema_validator.py and the endpoint of api/main.py.                 *)
(*                                                                         *)
(* Texts.  A text is a sequence of symbols.  A symbol is one character, or *)
(* a whole word (an identifier of the schema such as "policyholder", or a  *)
(* word of a value such as "Jane") that contains none of the characters    *)
(* and none of the tokens the parser looks for: no whitespace, ':', '.',   *)
(* ',', '$', no digit or sign, and no "HKD", "N/A", "null", "UNKNOWN",     *)
(* "REDACTED" or "INCLUDED" in any letter case.  Every token the parser    *)
(* tests for is spelled out character by character, so that strip, split,  *)
(* replace, upper, lower, startswith, int() and float() are computed on    *)
(* the text and not assumed.                                               *)
(*                                                                         *)
(* Documents.  A node is a tagged record: a mapping [t |-> "dict", m], a   *)
(* string, an integer, a float, a list of strings or null (None).          *)
(***************************************************************************)
EXTENDS Integers, Sequences, FiniteSets, TLC

VARIABLES
    \* AIExtractor._parse_key_value_pairs
    response,      \* the lines of response_text
    lineNo,        \* the line the loop is at
    data,          \* the document being built
    pc,            \* "lines", "done" (returned) or "raised"
    \* extract_text_from_pdf
    pdf,           \* the file: whether it exists, and its number of pages
    use_ocr,
    apc,           \* the position in extract_text_from_pdf
    page,          \* the page the current loop is at
    lang,          \* the OCR language
    text_parts,    \* text_parts of the extraction that is running
    text_content,  \* the result of _extract_text_direct
    ocr_text,      \* the result of _extract_text_ocr
    result,        \* the text returned
    calls,         \* the library functions called so far
    direct_seen,   \* what page.extract_text() did, page by page
    ocr_seen,      \* what pytesseract.image_to_string did, page by page
    \* validate_extracted_data
    document,      \* the data argument
    schema_file,   \* validator.json as it is on disk
    schema,        \* the schema loaded
    errors,        \* the errors list
    missing_fields,\* the missing_fields list
    exc,           \* the exception being handled
    vpc,           \* the position in validate_extracted_data
    returned,      \* the (data, ValidationResult) returned
    \* extract_policy
    bpc,           \* the position in extract_policy; "done" when the request has finished
    pdf_text,      \* the text acquired
    extracted_data,\* the document of AIExtractor.extract
    http,          \* the response of the endpoint
    invoked,       \* the stages invoked so far, in order
    tmp_file,      \* the temporary file on disk: "none", "exists" or "deleted"
    tmp_file_path, \* the local of that name: "unbound" or "bound"
    unlink         \* Path(tmp_file_path).unlink(): "not called", "done", "raised"

parseVars == <<response, lineNo, data, pc>>
acquireVars ==
    <<pdf, use_ocr, apc, page, lang, text_parts, text_content, ocr_text, result,
      calls, direct_seen, ocr_seen>>
validateVars ==
    <<document, schema_file, schema, errors, missing_fields, exc, vpc, returned>>
uploadVars == <<tmp_file, tmp_file_path, unlink>>
boundaryVars == <<bpc, pdf_text, extracted_data, http, invoked, tmp_file, tmp_file_path, unlink>>
vars ==
    <<response, lineNo, data, pc,
      pdf, use_ocr, apc, page, lang, text_parts, text_content, ocr_text, result,
      calls, direct_seen, ocr_seen,
      document, schema_file, schema, errors, missing_fields, exc, vpc, returned,
      bpc, pdf_text, extracted_data, http, invoked, tmp_file, tmp_file_path, unlink>>

(***************************************************************************)
(* Python str operations on texts                                          *)
(***************************************************************************)
Whitespace == {" ", "\t"}

LowerLetters == <<"a","b","c","d","e","f","g","h","i","j","k","l","m",
                  "n","o","p","q","r","s","t","u","v","w","x","y","z">>
UpperLetters == <<"A","B","C","D","E","F","G","H","I","J","K","L","M",
                  "N","O","P","Q","R","S","T","U","V","W","X","Y","Z">>

\* The words of the values used as inputs, with their upper- and lower-case forms.
Words == <<"Jane", "Tan", "Windscreen", "Roadside", "Assist", "Ann", "Bob",
           "owner", "note", "red", "ish">>
WordsUpper == <<"JANE", "TAN", "WINDSCREEN", "ROADSIDE", "ASSIST", "ANN", "BOB",
                "OWNER", "NOTE", "RED", "ISH">>
WordsLower == <<"jane", "tan", "windscreen", "roadside", "assist", "ann", "bob",
                "owner", "note", "red", "ish">>

IndexIn(seq, c) == CHOOSE k \in 1..Len(seq) : seq[k] = c
Occurs(seq, c) == \E k \in 1..Len(seq) : seq[k] = c

upper_symbol(c) ==
    IF Occurs(LowerLetters, c) THEN UpperLetters[IndexIn(LowerLetters, c)]
    ELSE IF Occurs(Words, c) THEN WordsUpper[IndexIn(Words, c)]
    ELSE c

lower_symbol(c) ==
    IF Occurs(UpperLetters, c) THEN LowerLetters[IndexIn(UpperLetters, c)]
    ELSE IF Occurs(Words, c) THEN WordsLower[IndexIn(Words, c)]
    ELSE c

upper(s) == [k \in 1..Len(s) |-> upper_symbol(s[k])]
lower(s) == [k \in 1..Len(s) |-> lower_symbol(s[k])]

RECURSIVE lstrip(_)
lstrip(s) == IF s # <<>> /\ Head(s) \in Whitespace THEN lstrip(Tail(s)) ELSE s

RECURSIVE rstrip(_)
rstrip(s) ==
    IF s # <<>> /\ s[Len(s)] \in Whitespace THEN rstrip(SubSeq(s, 1, Len(s) - 1)) ELSE s

strip(s) == rstrip(lstrip(s))

startswith(s, prefix) ==
    Len(s) >= Len(prefix) /\ SubSeq(s, 1, Len(prefix)) = prefix

\* pattern in s, for a non-empty pattern
contains(s, pattern) ==
    \E k \in 1..(Len(s) - Len(pattern) + 1) : SubSeq(s, k, k + Len(pattern) - 1) = pattern

\* s.replace(pattern, ''): the occurrences are removed left to right
RECURSIVE replace_with_empty(_, _)
replace_with_empty(s, pattern) ==
    IF Len(s) < Len(pattern) THEN s
    ELSE IF startswith(s, pattern)
         THEN replace_with_empty(SubSeq(s, Len(pattern) + 1, Len(s)), pattern)
         ELSE <<Head(s)>> \o replace_with_empty(Tail(s), pattern)

\* s.split(sep) for a one-symbol separator: the pieces, empty ones included
RECURSIVE split(_, _)
split(s, sep) ==
    IF ~Occurs(s, sep) THEN <<s>>
    ELSE LET k == CHOOSE j \in 1..Len(s) :
                      s[j] = sep /\ \A h \in 1..(j - 1) : s[h] # sep
         IN  <<SubSeq(s, 1, k - 1)>> \o split(SubSeq(s, k + 1, Len(s)), sep)

\* s.split(sep, 1): at most one cut, at the first separator
split_once(s, sep) ==
    IF ~Occurs(s, sep) THEN <<s>>
    ELSE LET k == CHOOSE j \in 1..Len(s) :
                      s[j] = sep /\ \A h \in 1..(j - 1) : s[h] # sep
         IN  <<SubSeq(s, 1, k - 1), SubSeq(s, k + 1, Len(s))>>

\* The Python string a text stands for
RECURSIVE join_symbols(_)
join_symbols(s) == IF s = <<>> THEN "" ELSE Head(s) \o join_symbols(Tail(s))

(***************************************************************************)
(* int() and float() on a stripped text.  The alphabet has no '_' and no   *)
(* non-ASCII digit; "inf" and "nan" contain no '.', and float() is only    *)
(* called on a text that contains '.'.  A float that is in range is kept   *)
(* as the decimal written, without the rounding to a double.               *)
(***************************************************************************)
Digits == <<"0","1","2","3","4","5","6","7","8","9">>
IsDigits(s) == \A k \in 1..Len(s) : Occurs(Digits, s[k])
DigitValue(c) == IndexIn(Digits, c) - 1

RECURSIVE DigitsValue(_)
DigitsValue(s) ==
    IF s = <<>> THEN 0
    ELSE 10 * DigitsValue(SubSeq(s, 1, Len(s) - 1)) + DigitValue(s[Len(s)])

RECURSIVE Pow10(_)
Pow10(n) == IF n <= 0 THEN 1 ELSE 10 * Pow10(n - 1)

Signed(s) == s # <<>> /\ Head(s) \in {"+", "-"}
Unsigned(s) == IF Signed(s) THEN Tail(s) ELSE s
SignOf(s) == IF s # <<>> /\ Head(s) = "-" THEN -1 ELSE 1

ParseFailed == [ok |-> FALSE]

\* int(s): an optional sign and at least one digit; ValueError otherwise
parse_int(s) ==
    LET body == Unsigned(s)
    IN  IF body # <<>> /\ IsDigits(body)
        THEN [ok |-> TRUE, n |-> SignOf(s) * DigitsValue(body)]
        ELSE ParseFailed

\* A float is num / 10^scale, with scale >= 0 and no trailing zero in num
\* when scale > 0: so that 5500.00 and 5500.0 are the same float.
RECURSIVE Normalise(_, _)
Normalise(num, scale) ==
    IF scale > 0 /\ num % 10 = 0 THEN Normalise(num \div 10, scale - 1)
    ELSE [num |-> num, scale |-> scale]

\* The digits of a mantissa from its first digit that is not zero
RECURSIVE significant(_)
significant(digits) ==
    IF digits # <<>> /\ Head(digits) = "0" THEN significant(Tail(digits)) ELSE digits
\* d.ddd... > e.eee... for two sequences of digits
RECURSIVE digits_above(_, _)
digits_above(a, b) ==
    IF a = <<>> THEN FALSE
    ELSE IF b = <<>> THEN significant(a) # <<>>
    ELSE IF Head(a) = Head(b) THEN digits_above(Tail(a), Tail(b))
    ELSE DigitValue(Head(a)) > DigitValue(Head(b))
\* Half-way between the largest double and 2^1024 is 1.7976...8079 * 10^308:
\* a value above it is rounded to infinity.  A mantissa that agrees with it
\* in all of these digits is not among the texts.
OVERFLOW_MANTISSA ==
    <<"1","7","9","7","6","9","3","1","3","4","8","6","2","3","1","5","8","0","7","9">>

\* float(s): [sign] digits [. digits] [e|E [sign] digits], at least one digit
\* in the mantissa; ValueError otherwise.  inf when the value is out of range
parse_float(s) ==
    LET body == Unsigned(s)
        low == lower(body)
        cut == split_once(low, "e")
        mant == cut[1]
        hasExp == Len(cut) = 2
        expo == IF hasExp THEN cut[2] ELSE <<"0">>
        parts == split(mant, ".")
        ip == parts[1]
        fp == IF Len(parts) = 2 THEN parts[2] ELSE <<>>
        mantOk == /\ Len(parts) <= 2
                  /\ IsDigits(ip) /\ IsDigits(fp)
                  /\ Len(ip) + Len(fp) >= 1
        expOk == Unsigned(expo) # <<>> /\ IsDigits(Unsigned(expo))
    IN  IF mantOk /\ expOk
        THEN LET e == SignOf(expo) * DigitsValue(Unsigned(expo))
                 shown == significant(ip \o fp)
                 \* the value is d.ddd * 10^adjusted, d the first digit of shown
                 adjusted == Len(shown) - Len(fp) - 1 + e
             IN  IF shown = <<>> \/ adjusted < -324  \* rounded to zero
                 THEN [ok |-> TRUE, inf |-> FALSE, num |-> 0, scale |-> 0]
                 ELSE IF \/ adjusted > 308
                         \/ /\ adjusted = 308
                            /\ digits_above(shown, OVERFLOW_MANTISSA)
                 THEN [ok |-> TRUE, inf |-> TRUE, num |-> SignOf(s), scale |-> 0]
                 ELSE LET m == SignOf(s) * DigitsValue(ip \o fp)
                          scale == Len(fp) - e
                          r == IF scale < 0 THEN Normalise(m * Pow10(-scale), 0)
                               ELSE Normalise(m, scale)
                      IN  [ok |-> TRUE, inf |-> FALSE, num |-> r.num, scale |-> r.scale]
        ELSE ParseFailed

(***************************************************************************)
(* Document nodes                                                          *)
(***************************************************************************)
EmptyMap == [k \in {} |-> TRUE]
DictV(m) == [t |-> "dict", m |-> m]
EmptyDict == DictV(EmptyMap)
StrV(s) == [t |-> "str", s |-> join_symbols(s)]
IntV(n) == [t |-> "int", n |-> n]
FloatV(num, scale) == [t |-> "float", num |-> num, scale |-> scale]
ListV(items) == [t |-> "list", items |-> items]
NoneV == [t |-> "None"]
\* float('inf') and float('-inf')
InfV(sign) == [t |-> "float", inf |-> sign]
IsInf(node) == node.t = "float" /\ "inf" \in DOMAIN node
\* The outcome of a call that raised (TypeError or AttributeError)
Raised == [t |-> "raised"]

IsDict(node) == node.t = "dict"
Has(node, key) == key \in DOMAIN node.m
Put(node, key, value) ==
    DictV([k \in DOMAIN node.m \cup {key} |-> IF k = key THEN value ELSE node.m[k]])
Pop(node, key) == DictV([k \in DOMAIN node.m \ {key} |-> node.m[k]])

(***************************************************************************)
(* AIExtractor._set_nested_value: the coercion of a value, chosen by the   *)
(* final segment of the path, and the assignment at the path               *)
(***************************************************************************)
N_A == <<"N", "/", "A">>
UNKNOWN == <<"U", "N", "K", "N", "O", "W", "N">>
REDACTED == <<"R", "E", "D", "A", "C", "T", "E", "D">>
INCLUDED == <<"I", "N", "C", "L", "U", "D", "E", "D">>
NULL == <<"n", "u", "l", "l">>
HKD == <<"H", "K", "D">>

list_fields == {"namedDrivers", "endorsements"}
integer_fields == {"yearOfManufacture", "seatingCapacity"}
number_fields == {"premiumAmount", "totalPayable", "noClaimDiscount", "bodilyInjury",
                  "propertyDamage", "cubicCapacity", "estimatedValue", "mib",
                  "thirdPartyProperty", "youngDriver", "inexperiencedDriver",
                  "unnamedDriver"}
required_string_fields == {"name", "address", "occupation", "registrationMark",
                           "makeAndModel", "chassisNumber", "bodyType", "typeOfCover",
                           "limitationsOnUse", "authorizedDrivers", "insurerName",
                           "policyNumber"}

\* A comprehension that keeps the pieces as split: untrimmed, empties kept
RECURSIVE untrimmed_pieces(_)
untrimmed_pieces(pieces) ==
    IF pieces = <<>> THEN <<>>
    ELSE <<join_symbols(Head(pieces))>> \o untrimmed_pieces(Tail(pieces))

\* [v.strip() for v in value.split(',') if v.strip()]
RECURSIVE stripped_pieces(_)
stripped_pieces(pieces) ==
    IF pieces = <<>> THEN <<>>
    ELSE LET v == strip(Head(pieces))
         IN  (IF v # <<>> THEN <<join_symbols(v)>> ELSE <<>>)
             \o stripped_pieces(Tail(pieces))

\* A list branch without the test for "N/A"
coerce_list_always_splits(value) == ListV(stripped_pieces(split(value, ",")))

coerce_list(value) ==
    IF value # <<>> /\ value # N_A
    THEN ListV(stripped_pieces(split(value, ",")))
    ELSE ListV(<<>>)

coerce_integer(value) ==
    IF value = N_A THEN NoneV
    ELSE LET r == parse_int(value) IN IF r.ok THEN IntV(r.n) ELSE NoneV

\* A cleaning that leaves the thousands separators in place
clean_number_keeps_commas(value) ==
    strip(replace_with_empty(replace_with_empty(value, <<"$">>), HKD))

\* value.replace('$', '').replace(',', '').replace('HKD', '').strip()
clean_number(value) ==
    strip(replace_with_empty(
              replace_with_empty(replace_with_empty(value, <<"$">>), <<",">>), HKD))

\* float(cleaned) if '.' in cleaned else int(cleaned); None on ValueError
parse_number(cleaned) ==
    IF Occurs(cleaned, ".")
    THEN LET r == parse_float(cleaned)
         IN  IF ~r.ok THEN NoneV
             ELSE IF r.inf THEN InfV(r.num) ELSE FloatV(r.num, r.scale)
    ELSE LET r == parse_int(cleaned) IN IF r.ok THEN IntV(r.n) ELSE NoneV

coerce_number(value) ==
    LET cleaned == clean_number(value)
    IN  IF cleaned # <<>> /\ cleaned # N_A THEN parse_number(cleaned) ELSE NoneV

coerce_ia(value) ==
    LET cleaned == clean_number(value)
        kept == IF upper(value) = INCLUDED THEN StrV(value) ELSE NoneV
    IN  IF cleaned # <<>> /\ upper(cleaned) # INCLUDED /\ cleaned # N_A
        THEN LET n == parse_number(cleaned) IN IF n = NoneV THEN kept ELSE n
        ELSE kept

\* A required string treated as an optional one: "N/A" becomes None, the
\* other values are kept as written
store_as_optional_string(value) == IF value # N_A THEN StrV(value) ELSE NoneV

coerce_required_string(value) ==
    IF upper(value) \in {N_A, UNKNOWN, REDACTED} THEN StrV(upper(value))
    ELSE IF startswith(upper(value), UNKNOWN) \/ startswith(upper(value), REDACTED)
         THEN StrV(value)
         ELSE StrV(value)

coerce_optional_string(value) == IF value # N_A THEN StrV(value) ELSE NoneV

coerce(final_key, value) ==
    IF final_key \in list_fields THEN coerce_list(value)
    ELSE IF final_key \in integer_fields THEN coerce_integer(value)
    ELSE IF final_key \in number_fields THEN coerce_number(value)
    ELSE IF final_key = "ia" THEN coerce_ia(value)
    ELSE IF final_key \in required_string_fields THEN coerce_required_string(value)
    ELSE coerce_optional_string(value)

\* key_path.split('.'), each segment as a Python string
path_keys(key_path) ==
    LET segs == split(key_path, ".") IN [k \in 1..Len(segs) |-> join_symbols(segs[k])]

\* An assignment that keeps the value a key already holds
RECURSIVE assign_at_keeps_first(_, _, _)
assign_at_keeps_first(current, keys, leaf) ==
    IF ~IsDict(current) THEN Raised
    ELSE IF Len(keys) = 1
    THEN IF Has(current, keys[1]) THEN current ELSE Put(current, keys[1], leaf)
    ELSE LET key == Head(keys)
             child == IF Has(current, key) THEN current.m[key] ELSE EmptyDict
             below == assign_at_keeps_first(child, Tail(keys), leaf)
         IN  IF below = Raised THEN Raised ELSE Put(current, key, below)

\* The walk to the parent and the assignment of the final key.  Python
\* raises TypeError as soon as the walk meets a value that is no mapping: a
\* str, None, a number or a list supports neither `key in`, nor indexing
\* by a str, nor item assignment.
RECURSIVE assign_at(_, _, _)
assign_at(current, keys, leaf) ==
    IF ~IsDict(current) THEN Raised
    ELSE IF Len(keys) = 1 THEN Put(current, keys[1], leaf)
    ELSE LET key == Head(keys)
             child == IF Has(current, key) THEN current.m[key] ELSE EmptyDict
             below == assign_at(child, Tail(keys), leaf)
         IN  IF below = Raised THEN Raised ELSE Put(current, key, below)

\* A coercion that applies the field policies at the second level only
set_nested_value_by_depth(d, key_path, value) ==
    LET keys == path_keys(key_path)
    IN  assign_at(d, keys,
                  IF Len(keys) = 2 THEN coerce(keys[Len(keys)], value)
                  ELSE coerce_optional_string(value))

set_nested_value(d, key_path, value) ==
    LET keys == path_keys(key_path)
    IN  assign_at(d, keys, coerce(keys[Len(keys)], value))

(***************************************************************************)
(* AIExtractor._fill_missing_required_fields                               *)
(***************************************************************************)
defaults_policyholder ==
    << <<"name", StrV(UNKNOWN)>>, <<"address", StrV(UNKNOWN)>>,
       <<"occupation", StrV(UNKNOWN)>> >>
defaults_vehicle ==
    << <<"registrationMark", StrV(UNKNOWN)>>, <<"makeAndModel", StrV(UNKNOWN)>>,
       <<"yearOfManufacture", IntV(0)>>, <<"chassisNumber", StrV(UNKNOWN)>>,
       <<"seatingCapacity", IntV(0)>>, <<"bodyType", StrV(UNKNOWN)>> >>
\* A table that gives the two coverage texts the plain sentinel
defaults_coverage_plain ==
    << <<"typeOfCover", StrV(UNKNOWN)>>, <<"limitationsOnUse", StrV(UNKNOWN)>>,
       <<"authorizedDrivers", StrV(UNKNOWN)>> >>
defaults_coverage ==
    << <<"typeOfCover", StrV(UNKNOWN)>>,
       <<"limitationsOnUse",
         [t |-> "str", s |-> "UNKNOWN - standard usage restrictions apply"]>>,
       <<"authorizedDrivers",
         [t |-> "str", s |-> "UNKNOWN - standard driver authorization applies"]>> >>
defaults_liabilityLimits ==
    << <<"bodilyInjury", IntV(0)>>, <<"propertyDamage", IntV(0)>> >>
defaults_premiumAndDiscounts ==
    << <<"premiumAmount", FloatV(0, 0)>>, <<"totalPayable", FloatV(0, 0)>>,
       <<"noClaimDiscount", FloatV(0, 0)>> >>
defaults_insurerAndPolicyDetails ==
    << <<"insurerName", StrV(UNKNOWN)>>, <<"policyNumber", StrV(UNKNOWN)>> >>
defaults_periodOfInsurance ==
    << <<"start", StrV(UNKNOWN)>>, <<"end", StrV(UNKNOWN)>> >>

\* section.get(key) is None
get_is_None(section, key) == ~Has(section, key) \/ section.m[key] = NoneV

\* A completion that tests only `key not in section` and leaves a null in place
RECURSIVE fill_defaults_absent_only(_, _)
fill_defaults_absent_only(section, defaults) ==
    IF defaults = <<>> THEN section
    ELSE IF ~IsDict(section) THEN Raised
    ELSE LET key == Head(defaults)[1]
             filled == IF ~Has(section, key) THEN Put(section, key, Head(defaults)[2])
                       ELSE section
         IN  fill_defaults_absent_only(filled, Tail(defaults))

\* A completion that takes every falsy value for a missing one
RECURSIVE fill_defaults_when_falsy(_, _)
fill_defaults_when_falsy(section, defaults) ==
    IF defaults = <<>> THEN section
    ELSE IF ~IsDict(section) THEN Raised
    ELSE LET key == Head(defaults)[1]
             falsy == \/ get_is_None(section, key)
                      \/ section.m[key] \in {IntV(0), FloatV(0, 0), StrV(<<>>)}
             filled == IF falsy THEN Put(section, key, Head(defaults)[2]) ELSE section
         IN  fill_defaults_when_falsy(filled, Tail(defaults))

\* for key, default in defaults: if key not in section or section.get(key) is
\* None: section[key] = default.  On a section that is no mapping (a str or
\* None) the test or the assignment raises TypeError or AttributeError.
RECURSIVE fill_defaults(_, _)
fill_defaults(section, defaults) ==
    IF defaults = <<>> THEN section
    ELSE IF ~IsDict(section) THEN Raised
    ELSE LET key == Head(defaults)[1]
             default == Head(defaults)[2]
             filled == IF get_is_None(section, key) THEN Put(section, key, default)
                       ELSE section
         IN  fill_defaults(filled, Tail(defaults))

\* The section at key, created empty when it is not there
section_or_empty(d, key) == IF Has(d, key) THEN d.m[key] ELSE EmptyDict

\* d with its section at key replaced, or Raised when the section raised
with_section(d, key, section) == IF section = Raised THEN Raised ELSE Put(d, key, section)

fill_policyholder(d) ==
    with_section(d, "policyholder",
                 fill_defaults(section_or_empty(d, "policyholder"), defaults_policyholder))

fill_vehicle(d) ==
    with_section(d, "vehicle",
                 fill_defaults(section_or_empty(d, "vehicle"), defaults_vehicle))

\* typeOfCover, limitationsOnUse and authorizedDrivers, then liabilityLimits,
\* then excess (created when absent, left alone otherwise)
fill_coverage(d) ==
    LET leaves == fill_defaults(section_or_empty(d, "coverage"), defaults_coverage)
        limits == IF leaves = Raised THEN Raised
                  ELSE with_section(leaves, "liabilityLimits",
                           fill_defaults(section_or_empty(leaves, "liabilityLimits"),
                                         defaults_liabilityLimits))
        excess == IF limits = Raised THEN Raised
                  ELSE IF Has(limits, "excess") THEN limits
                  ELSE Put(limits, "excess", EmptyDict)
    IN  with_section(d, "coverage", excess)

\* Handle levies: a null mib or ia is set to 0.0, then the levies object is
\* removed when it is empty or when mib and ia are both null or missing
fill_levies(levies) ==
    IF ~IsDict(levies) THEN Raised
    ELSE LET mib == IF Has(levies, "mib") /\ levies.m["mib"] = NoneV
                    THEN Put(levies, "mib", FloatV(0, 0)) ELSE levies
             ia == IF Has(mib, "ia") /\ mib.m["ia"] = NoneV
                   THEN Put(mib, "ia", FloatV(0, 0)) ELSE mib
         IN  ia

\* A cleanup that removes the levies when either member is null or missing
levies_removed_when_either(levies) ==
    DOMAIN levies.m = {} \/ get_is_None(levies, "mib") \/ get_is_None(levies, "ia")

levies_removed(levies) ==
    DOMAIN levies.m = {} \/ (get_is_None(levies, "mib") /\ get_is_None(levies, "ia"))

\* A completion whose cleanup runs before the backfill and takes a zero levy
\* for a missing one
fill_premiumAndDiscounts_cleanup_first(d) ==
    LET leaves == fill_defaults(section_or_empty(d, "premiumAndDiscounts"),
                                defaults_premiumAndDiscounts)
        zero(l, k) == ~Has(l, k) \/ l.m[k] \in {FloatV(0, 0), IntV(0)}
        levies == IF leaves = Raised THEN Raised
                  ELSE IF ~Has(leaves, "levies") THEN leaves
                  ELSE LET l == leaves.m["levies"]
                       IN  IF ~IsDict(l) THEN Raised
                           ELSE IF zero(l, "mib") /\ zero(l, "ia") THEN Pop(leaves, "levies")
                           ELSE Put(leaves, "levies", fill_levies(l))
    IN  with_section(d, "premiumAndDiscounts", levies)

fill_premiumAndDiscounts(d) ==
    LET leaves == fill_defaults(section_or_empty(d, "premiumAndDiscounts"),
                                defaults_premiumAndDiscounts)
        levies == IF leaves = Raised THEN Raised
                  ELSE IF ~Has(leaves, "levies") THEN leaves
                  ELSE LET l == fill_levies(leaves.m["levies"])
                       IN  IF l = Raised THEN Raised
                           ELSE IF levies_removed(l) THEN Pop(leaves, "levies")
                           ELSE Put(leaves, "levies", l)
    IN  with_section(d, "premiumAndDiscounts", levies)

\* insurerName and policyNumber, then periodOfInsurance (created when absent)
fill_insurerAndPolicyDetails(d) ==
    LET section == section_or_empty(d, "insurerAndPolicyDetails")
        leaves == IF ~IsDict(section) THEN Raised
                  ELSE fill_defaults(section, defaults_insurerAndPolicyDetails)
        period == IF leaves = Raised THEN Raised
                  ELSE with_section(leaves, "periodOfInsurance",
                           fill_defaults(section_or_empty(leaves, "periodOfInsurance"),
                                         defaults_periodOfInsurance))
    IN  with_section(d, "insurerAndPolicyDetails", period)

fill_missing_required_fields(d) ==
    LET d1 == fill_policyholder(d)
        d2 == IF d1 = Raised THEN Raised ELSE fill_vehicle(d1)
        d3 == IF d2 = Raised THEN Raised ELSE fill_coverage(d2)
        d4 == IF d3 = Raised THEN Raised ELSE fill_premiumAndDiscounts(d3)
    IN  IF d4 = Raised THEN Raised ELSE fill_insurerAndPolicyDetails(d4)

(***************************************************************************)
(* AIExtractor._parse_key_value_pairs                                      *)
(***************************************************************************)
initial_data ==
    DictV([k \in {"policyholder", "vehicle", "coverage", "premiumAndDiscounts",
                  "insurerAndPolicyDetails", "additionalEndorsements"} |->
             CASE k = "coverage" ->
                    DictV([j \in {"liabilityLimits", "excess"} |-> EmptyDict])
               [] k = "premiumAndDiscounts" -> DictV([j \in {"levies"} |-> EmptyDict])
               [] k = "insurerAndPolicyDetails" ->
                    DictV([j \in {"periodOfInsurance"} |-> EmptyDict])
               [] OTHER -> EmptyDict])

\* A test for the token as written in lower case only
is_plain_null_lowercase_only(value) ==
    /\ value = NULL
    /\ ~contains(value, N_A)
    /\ ~contains(upper(value), UNKNOWN)
    /\ ~contains(upper(value), REDACTED)

\* value.lower() == 'null' and 'N/A' not in value and 'UNKNOWN' not in
\* value.upper() and 'REDACTED' not in value.upper()
is_plain_null(value) ==
    /\ lower(value) = NULL
    /\ ~contains(value, N_A)
    /\ ~contains(upper(value), UNKNOWN)
    /\ ~contains(upper(value), REDACTED)

\* The line filter: what a line assigns, if anything
SkipLine == [skip |-> TRUE]
parse_line(raw) ==
    LET line == strip(raw)
    IN  IF line = <<>> \/ ~Occurs(line, ":") THEN SkipLine
        ELSE LET parts == split_once(line, ":")
                 key == strip(parts[1])
                 value == strip(parts[2])
             IN  IF value = <<>> \/ is_plain_null(value) THEN SkipLine
                 ELSE [skip |-> FALSE, key |-> key, value |-> value]

\* One iteration of `for line in lines`
apply_line(d, raw) ==
    LET kv == parse_line(raw)
    IN  IF kv.skip THEN d ELSE set_nested_value(d, kv.key, kv.value)

(***************************************************************************)
(* The responses of the generation capability that are checked: every      *)
(* sequence of at most MaxLines lines of LinePool                          *)
(***************************************************************************)
MaxLines == 2

RECURSIVE dotted(_)
dotted(segments) ==
    IF Len(segments) = 1 THEN <<segments[1]>>
    ELSE <<Head(segments), ".">> \o dotted(Tail(segments))

Line(segments, value) == dotted(segments) \o <<":", " ">> \o value

p_name == <<"policyholder", "name">>
p_namedDrivers == <<"policyholder", "namedDrivers">>
p_yearOfManufacture == <<"vehicle", "yearOfManufacture">>
p_seatingCapacity == <<"vehicle", "seatingCapacity">>
p_bodyType == <<"vehicle", "bodyType">>
p_engineNumber == <<"vehicle", "engineNumber">>
p_limitationsOnUse == <<"coverage", "limitationsOnUse">>
p_authorizedDrivers == <<"coverage", "authorizedDrivers">>
p_bodilyInjury == <<"coverage", "liabilityLimits", "bodilyInjury">>
p_premiumAmount == <<"premiumAndDiscounts", "premiumAmount">>
p_totalPayable == <<"premiumAndDiscounts", "totalPayable">>
p_noClaimDiscount == <<"premiumAndDiscounts", "noClaimDiscount">>
p_levies == <<"premiumAndDiscounts", "levies">>
p_mib == <<"premiumAndDiscounts", "levies", "mib">>
p_ia == <<"premiumAndDiscounts", "levies", "ia">>
p_insurerName == <<"insurerAndPolicyDetails", "insurerName">>
p_start == <<"insurerAndPolicyDetails", "periodOfInsurance", "start">>
p_end == <<"insurerAndPolicyDetails", "periodOfInsurance", "end">>
p_endorsements == <<"additionalEndorsements", "endorsements">>

v_JaneTan == <<"Jane", " ", "Tan">>
v_n_a == <<"n", "/", "a">>
v_Redacted == <<"R", "e", "d", "a", "c", "t", "e", "d">>
v_unknown == <<"u", "n", "k", "n", "o", "w", "n">>
v_UnknownOwner == <<"U", "n", "k", "n", "o", "w", "n", " ", "-", " ", "owner">>
v_REDACTEDnote == REDACTED \o <<" ", "note">>
v_HKD5500 == <<"H", "K", "D", " ", "5", ",", "5", "0", "0", ".", "0", "0">>
v_Dollar1200 == <<"$", "1", ",", "2", "0", "0">>
v_12x == <<"1", "2", "x">>
v_Dollar == <<"$">>
v_3050 == <<"3", "0", ".", "5", "0">>
v_2020 == <<"2", "0", "2", "0">>
v_5point0 == <<"5", ".", "0">>
v_Endorsements == <<"Windscreen", ",", " ", "Roadside", " ", "Assist">>
v_Drivers == <<",", " ", "Ann", ",", ",", " ", "Bob", " ", ",">>
v_included == <<"i", "n", "c", "l", "u", "d", "e", "d">>
v_HKD30 == <<"H", "K", "D", " ", "3", "0">>
v_DollarIncluded == <<"$", "i", "n", "c", "l", "u", "d", "e", "d">>
v_date == <<"3", "1", "/", "1", "2", "/", "2", "0", "2", "4">>
v_redish == <<"red", ":", "ish">>
v_Null == <<"N", "u", "l", "l">>
v_1e999 == <<"1", ".", "0", "e", "9", "9", "9">>
p_other == <<"premiumAndDiscounts", "levies", "other">>

RequiredStringLines ==
    { Line(p_name, v_JaneTan), Line(p_name, v_n_a), Line(p_name, N_A),
      Line(p_insurerName, REDACTED), Line(p_insurerName, v_Redacted),
      Line(p_limitationsOnUse, v_unknown), Line(p_limitationsOnUse, v_REDACTEDnote),
      Line(p_authorizedDrivers, v_UnknownOwner) }

NumberLines ==
    { Line(p_premiumAmount, v_HKD5500), Line(p_premiumAmount, N_A),
      Line(p_totalPayable, v_Dollar1200), Line(p_bodilyInjury, v_12x),
      Line(p_noClaimDiscount, v_Dollar),
      Line(p_mib, v_3050), Line(p_mib, N_A),
      Line(p_yearOfManufacture, v_2020), Line(p_yearOfManufacture, N_A),
      Line(p_seatingCapacity, v_5point0) }

ListLines ==
    { Line(p_endorsements, v_Endorsements), Line(p_endorsements, N_A),
      Line(p_endorsements, v_n_a),
      Line(p_namedDrivers, v_Drivers), Line(p_namedDrivers, <<>>) }

LevyLines ==
    { Line(p_ia, v_included), Line(p_ia, INCLUDED), Line(p_ia, N_A),
      Line(p_ia, v_HKD30), Line(p_ia, v_DollarIncluded) }

\* Lines that address a path below a required leaf, or a whole section
SectionLines ==
    { Line(<<"policyholder", "name", "first">>, <<"X">>),
      Line(<<"vehicle">>, <<"x">>), Line(<<"policyholder">>, N_A),
      Line(p_levies, <<"x">>) }

OtherLines ==
    { <<>>, <<" ", "note", " ">>,
      Line(p_bodyType, NULL), Line(p_start, N_A), Line(p_end, v_date),
      Line(p_engineNumber, N_A), Line(p_engineNumber, v_Null),
      Line(p_other, <<"x">>),
      <<" ">> \o Line(<<"extra", "deep", "color">>, v_redish) \o <<" ">> }

LinePool ==
    RequiredStringLines \cup NumberLines \cup ListLines \cup LevyLines
        \cup SectionLines \cup OtherLines

Responses == UNION {[1..n -> LinePool] : n \in 0..MaxLines}

(***************************************************************************)
(* The parser as a state machine: one step per line of the response, then  *)
(* the default completion; an exception ends the parse.                    *)
(***************************************************************************)
AcquireIdle ==
    /\ pdf = [exists |-> FALSE, pages |-> 0]
    /\ use_ocr = FALSE /\ apc = "idle" /\ page = 0 /\ lang = "none"
    /\ text_parts = <<>> /\ text_content = <<>> /\ ocr_text = <<>> /\ result = <<>>
    /\ calls = {} /\ direct_seen = <<>> /\ ocr_seen = <<>>

NoValue == [t |-> "none"]

ValidateIdle ==
    /\ document = NoValue /\ schema_file = NoValue /\ schema = NoValue
    /\ errors = <<>> /\ missing_fields = <<>> /\ exc = NoValue
    /\ vpc = "idle" /\ returned = NoValue

BoundaryIdle ==
    /\ bpc = "idle" /\ pdf_text = NoValue /\ extracted_data = NoValue
    /\ http = NoValue /\ invoked = <<>>
    /\ tmp_file = "none" /\ tmp_file_path = "unbound" /\ unlink = "not called"

ParseInit ==
    /\ response \in Responses
    /\ lineNo = 1
    /\ data = initial_data
    /\ pc = "lines"
    /\ AcquireIdle /\ ValidateIdle /\ BoundaryIdle

ParseLine ==
    /\ pc = "lines"
    /\ lineNo <= Len(response)
    /\ LET d == apply_line(data, response[lineNo])
       IN  IF d = Raised
           THEN pc' = "raised" /\ UNCHANGED <<data, lineNo>>
           ELSE data' = d /\ lineNo' = lineNo + 1 /\ pc' = pc
    /\ UNCHANGED <<response, acquireVars, validateVars, boundaryVars>>

FillMissing ==
    /\ pc = "lines"
    /\ lineNo > Len(response)
    /\ LET d == fill_missing_required_fields(data)
       IN  IF d = Raised
           THEN pc' = "raised" /\ UNCHANGED data
           ELSE data' = d /\ pc' = "done"
    /\ UNCHANGED <<response, lineNo, acquireVars, validateVars, boundaryVars>>

ParseNext == ParseLine \/ FillMissing

SpecParse == ParseInit /\ [][ParseNext]_vars

(***************************************************************************)
(* The parser on responses that repeat a path or a final segment: every    *)
(* sequence of at most MaxRepeated lines that assign a numeric field, a    *)
(* string field, a path outside the schema and its parent, and the same    *)
(* final segments under other parents and at other depths                  *)
(***************************************************************************)
MaxRepeated == 3

p_extra == <<"extra">>
p_deep == <<"extra", "deep">>

RepeatedPool ==
    { Line(p_premiumAmount, v_HKD5500), Line(p_premiumAmount, v_12x),
      Line(p_name, v_JaneTan), Line(p_name, N_A), Line(p_name, NULL),
      Line(p_deep, v_redish), Line(p_deep, N_A), Line(p_extra, <<"x">>),
      Line(<<"name">>, N_A), Line(<<"deep">>, N_A),
      Line(<<"other", "deep", "premiumAmount">>, v_HKD5500) }

RepeatedResponses == UNION {[1..n -> RepeatedPool] : n \in 0..MaxRepeated}

RepeatedInit ==
    /\ response \in RepeatedResponses
    /\ lineNo = 1
    /\ data = initial_data
    /\ pc = "lines"
    /\ AcquireIdle /\ ValidateIdle /\ BoundaryIdle

SpecRepeated == RepeatedInit /\ [][ParseNext]_vars

(***************************************************************************)
(* The parser on responses that leave the default completion something to  *)
(* keep: every sequence of at most MaxCompleted lines that store a zero,   *)
(* an empty list, a sentinel, a null, a levy, a member of the levies that  *)
(* the schema does not know, a mapping below a required leaf, or a scalar  *)
(* for a whole section                                                     *)
(***************************************************************************)
MaxCompleted == 2

CompletedPool ==
    { Line(p_noClaimDiscount, <<"0">>), Line(p_totalPayable, <<"0", ".", "0">>),
      Line(p_namedDrivers, N_A), Line(p_name, N_A), Line(p_insurerName, REDACTED),
      Line(p_yearOfManufacture, N_A), Line(p_engineNumber, N_A),
      Line(p_mib, N_A), Line(p_ia, INCLUDED), Line(p_other, <<"x">>),
      Line(p_deep, v_redish),
      Line(<<"policyholder", "name", "first">>, <<"X">>),
      Line(<<"vehicle">>, <<"x">>) }

CompletedResponses == UNION {[1..n -> CompletedPool] : n \in 0..MaxCompleted}

CompletedInit ==
    /\ response \in CompletedResponses
    /\ lineNo = 1
    /\ data = initial_data
    /\ pc = "lines"
    /\ AcquireIdle /\ ValidateIdle /\ BoundaryIdle

SpecCompleted == CompletedInit /\ [][ParseNext]_vars

(***************************************************************************)
(* pdf_processor.py.  A text of a PDF is a sequence of runs: a run is n    *)
(* characters that are all whitespace or n characters that begin and end   *)
(* with ink, written by pdfplumber, by tesseract or by the page marker.    *)
(* len() and strip() are computed on the runs.                             *)
(***************************************************************************)
MaxPages == 2
MIN_DIRECT_LENGTH == 100
OCR_RATIO_TENTHS == 15

Ink(n, by) == <<[ink |-> TRUE, n |-> n, by |-> by]>>
Blank(n, by) == <<[ink |-> FALSE, n |-> n, by |-> by]>>

RECURSIVE length(_)
length(text) == IF text = <<>> THEN 0 ELSE Head(text).n + length(Tail(text))

RECURSIVE text_lstrip(_)
text_lstrip(text) ==
    IF text # <<>> /\ ~Head(text).ink THEN text_lstrip(Tail(text)) ELSE text

RECURSIVE text_rstrip(_)
text_rstrip(text) ==
    IF text # <<>> /\ ~text[Len(text)].ink
    THEN text_rstrip(SubSeq(text, 1, Len(text) - 1)) ELSE text

text_strip(text) == text_rstrip(text_lstrip(text))

\* f"--- Page {page_num} ---\n{page_text}\n"
page_part(page_num, page_text) ==
    Ink(IF page_num < 10 THEN 14 ELSE 15, "marker") \o Blank(1, "marker")
        \o page_text \o Blank(1, "marker")

\* "\n".join(text_parts)
RECURSIVE join_parts(_)
join_parts(parts) ==
    IF parts = <<>> THEN <<>>
    ELSE IF Len(parts) = 1 THEN parts[1]
    ELSE parts[1] \o Blank(1, "join") \o join_parts(Tail(parts))

\* What a call on one page does: it raises, or it returns a text
Fails == [ok |-> FALSE, text |-> <<>>]
Returns(text) == [ok |-> TRUE, text |-> text]
NotTried == [ok |-> FALSE, text |-> Blank(0, "none")]

DirectOutcomes ==
    { Fails, Returns(<<>>), Returns(Blank(3, "pdfplumber")),
      Returns(Ink(25, "pdfplumber")), Returns(Ink(26, "pdfplumber")),
      Returns(Ink(45, "pdfplumber")), Returns(Ink(85, "pdfplumber")),
      Returns(Blank(2, "pdfplumber") \o Ink(25, "pdfplumber") \o Blank(3, "pdfplumber")) }

OcrOutcomes ==
    { Fails, Returns(Blank(2, "tesseract")),
      Returns(Ink(45, "tesseract")), Returns(Ink(46, "tesseract")),
      Returns(Ink(47, "tesseract") \o Blank(1, "tesseract")),
      Returns(Ink(65, "tesseract")) }

OcrEngOutcomes == { Fails, Returns(Ink(65, "tesseract") \o Blank(2, "tesseract")) }

\* A loop in which a failing page discards the pages collected before it
direct_append_reset(parts, page_num, outcome) ==
    IF ~outcome.ok THEN <<>>
    ELSE IF length(outcome.text) > 0
         THEN Append(parts, page_part(page_num, outcome.text))
         ELSE parts

\* if page_text: text_parts.append(...)
direct_append(parts, page_num, outcome) ==
    IF outcome.ok /\ length(outcome.text) > 0
    THEN Append(parts, page_part(page_num, outcome.text))
    ELSE parts

\* if page_text.strip(): text_parts.append(...)
ocr_append(parts, page_num, outcome) ==
    IF outcome.ok /\ length(text_strip(outcome.text)) > 0
    THEN Append(parts, page_part(page_num, outcome.text))
    ELSE parts

\* use_ocr and text_length < 100
tries_ocr(use, direct) == use /\ length(text_strip(direct)) < MIN_DIRECT_LENGTH

\* A comparison that also takes an OCR text of exactly 1.5 times the length
ocr_is_at_least(ocr, direct) ==
    length(text_strip(ocr)) * 10 >= length(text_strip(direct)) * OCR_RATIO_TENTHS

\* len(ocr_text.strip()) > text_length * 1.5
ocr_is_longer(ocr, direct) ==
    length(text_strip(ocr)) * 10 > length(text_strip(direct)) * OCR_RATIO_TENTHS

ParseIdle ==
    /\ response = <<>> /\ lineNo = 1 /\ data = initial_data /\ pc = "idle"

AcquireInit ==
    /\ pdf \in {[exists |-> FALSE, pages |-> 0]}
                \cup {[exists |-> TRUE, pages |-> n] : n \in 0..MaxPages}
    /\ use_ocr \in BOOLEAN
    /\ apc = "start"
    /\ page = 0 /\ lang = "none"
    /\ text_parts = <<>> /\ text_content = <<>> /\ ocr_text = <<>> /\ result = <<>>
    /\ calls = {} /\ direct_seen = <<>> /\ ocr_seen = <<>>
    /\ ParseIdle /\ ValidateIdle /\ BoundaryIdle

\* if not pdf_path.exists(): raise FileNotFoundError
CheckExists ==
    /\ apc = "start"
    /\ apc' = IF pdf.exists THEN "direct_open" ELSE "raised"
    /\ UNCHANGED <<pdf, use_ocr, page, lang, text_parts, text_content, ocr_text,
                   result, calls, direct_seen, ocr_seen, parseVars, validateVars, boundaryVars>>

\* _extract_text_direct: pdfplumber.open, which may raise: return ""
DirectOpen ==
    /\ apc = "direct_open"
    /\ \E opened \in BOOLEAN :
          IF opened
          THEN /\ apc' = "direct_pages" /\ page' = 1 /\ text_parts' = <<>>
               /\ calls' = calls \cup {"pdfplumber.open"}
               /\ UNCHANGED text_content
          ELSE /\ apc' = "decide" /\ text_content' = <<>>
               /\ calls' = calls \cup {"pdfplumber.open", "pdfplumber.open raised"}
               /\ UNCHANGED <<page, text_parts>>
    /\ UNCHANGED <<pdf, use_ocr, lang, ocr_text, result, direct_seen, ocr_seen,
                   parseVars, validateVars, boundaryVars>>

\* one iteration of `for page_num, page in enumerate(pdf.pages, 1)`
DirectPage ==
    /\ apc = "direct_pages"
    /\ page <= pdf.pages
    /\ \E outcome \in DirectOutcomes :
          /\ text_parts' = direct_append(text_parts, page, outcome)
          /\ direct_seen' = Append(direct_seen, outcome)
    /\ page' = page + 1
    /\ calls' = calls \cup {"page.extract_text"}
    /\ UNCHANGED <<pdf, use_ocr, apc, lang, text_content, ocr_text, result, ocr_seen,
                   parseVars, validateVars, boundaryVars>>

\* return "\n".join(text_parts)
DirectReturn ==
    /\ apc = "direct_pages"
    /\ page > pdf.pages
    /\ text_content' = join_parts(text_parts)
    /\ apc' = "decide"
    /\ UNCHANGED <<pdf, use_ocr, page, lang, text_parts, ocr_text, result, calls,
                   direct_seen, ocr_seen, parseVars, validateVars, boundaryVars>>

\* if use_ocr and text_length < 100: ... else: return text_content
Decide ==
    /\ apc = "decide"
    /\ IF tries_ocr(use_ocr, text_content)
       THEN apc' = "ocr_convert" /\ UNCHANGED result
       ELSE apc' = "returned" /\ result' = text_content
    /\ UNCHANGED <<pdf, use_ocr, page, lang, text_parts, text_content, ocr_text,
                   calls, direct_seen, ocr_seen, parseVars, validateVars, boundaryVars>>

\* _extract_text_ocr: convert_from_path, which may raise: return ""
OcrConvert ==
    /\ apc = "ocr_convert"
    /\ \E converted \in BOOLEAN :
          IF converted
          THEN /\ apc' = "ocr_languages"
               /\ calls' = calls \cup {"convert_from_path"}
               /\ UNCHANGED ocr_text
          ELSE /\ apc' = "compare" /\ ocr_text' = <<>>
               /\ calls' = calls \cup {"convert_from_path", "convert_from_path raised"}
    /\ UNCHANGED <<pdf, use_ocr, page, lang, text_parts, text_content, result,
                   direct_seen, ocr_seen, parseVars, validateVars, boundaryVars>>

\* pytesseract.get_languages(): 'chi_sim+eng', or 'eng' when it raises
OcrLanguages ==
    /\ apc = "ocr_languages"
    /\ \E listed \in BOOLEAN :
          IF listed
          THEN /\ lang' = "chi_sim+eng"
               /\ calls' = calls \cup {"pytesseract.get_languages"}
          ELSE /\ lang' = "eng"
               /\ calls' = calls \cup {"pytesseract.get_languages",
                                        "pytesseract.get_languages raised"}
    /\ apc' = "ocr_pages" /\ page' = 1 /\ text_parts' = <<>>
    /\ UNCHANGED <<pdf, use_ocr, text_content, ocr_text, result, direct_seen,
                   ocr_seen, parseVars, validateVars, boundaryVars>>

\* one iteration of `for page_num, image in enumerate(images, 1)`: a page
\* that fails with 'chi_sim+eng' is tried again with 'eng'
OcrPage ==
    /\ apc = "ocr_pages"
    /\ page <= pdf.pages
    /\ \E first \in OcrOutcomes :
          \E again \in (IF ~first.ok /\ lang # "eng" THEN OcrEngOutcomes ELSE {NotTried}) :
             /\ text_parts' = ocr_append(text_parts, page, IF first.ok THEN first ELSE again)
             /\ ocr_seen' = Append(ocr_seen, [first |-> first, again |-> again])
    /\ page' = page + 1
    /\ calls' = calls \cup {"pytesseract.image_to_string"}
    /\ UNCHANGED <<pdf, use_ocr, apc, lang, text_content, ocr_text, result,
                   direct_seen, parseVars, validateVars, boundaryVars>>

\* return "\n".join(text_parts)
OcrReturn ==
    /\ apc = "ocr_pages"
    /\ page > pdf.pages
    /\ ocr_text' = join_parts(text_parts)
    /\ apc' = "compare"
    /\ UNCHANGED <<pdf, use_ocr, page, lang, text_parts, text_content, result, calls,
                   direct_seen, ocr_seen, parseVars, validateVars, boundaryVars>>

\* if len(ocr_text.strip()) > text_length * 1.5: return ocr_text
\* return text_content
Compare ==
    /\ apc = "compare"
    /\ result' = IF ocr_is_longer(ocr_text, text_content) THEN ocr_text ELSE text_content
    /\ apc' = "returned"
    /\ UNCHANGED <<pdf, use_ocr, page, lang, text_parts, text_content, ocr_text,
                   calls, direct_seen, ocr_seen, parseVars, validateVars, boundaryVars>>

AcquireNext ==
    \/ CheckExists \/ DirectOpen \/ DirectPage \/ DirectReturn \/ Decide
    \/ OcrConvert \/ OcrLanguages \/ OcrPage \/ OcrReturn \/ Compare

SpecAcquire == AcquireInit /\ [][AcquireNext]_vars

(***************************************************************************)
(* schema_validator.py.  A schema is a boolean schema, or a mapping with   *)
(* the keywords "type" (a sequence of type names, empty when the keyword   *)
(* is not there), "properties" (in the order of the file) and "required".  *)
(* validator.json is not part of the sources: PolicySchema is written from *)
(* the specification's data model and from the fields that                 *)
(* models/policy_schema.py and tests/test_extractor.py name.               *)
(***************************************************************************)
BoolSchema == [kind |-> "bool"]
\* A mapping that jsonschema's check_schema rejects, e.g. {"type": 12}
InvalidSchema == [kind |-> "invalid"]
ObjectSchema(properties, required) ==
    [kind |-> "mapping", types |-> <<"object">>, has_properties |-> TRUE,
     properties |-> properties, required |-> required]
LeafSchema(types) ==
    [kind |-> "mapping", types |-> types, has_properties |-> FALSE,
     properties |-> <<>>, required |-> <<>>]

string == LeafSchema(<<"string">>)
integer == LeafSchema(<<"integer">>)
number == LeafSchema(<<"number">>)
optional_string == LeafSchema(<<"string", "null">>)
optional_number == LeafSchema(<<"number", "null">>)
optional_list == LeafSchema(<<"array", "null">>)

schema_policyholder ==
    ObjectSchema(<< <<"name", string>>, <<"address", string>>,
                    <<"occupation", string>>, <<"namedDrivers", optional_list>> >>,
                 <<"name", "address", "occupation">>)
schema_vehicle ==
    ObjectSchema(<< <<"registrationMark", string>>, <<"makeAndModel", string>>,
                    <<"yearOfManufacture", integer>>, <<"chassisNumber", string>>,
                    <<"engineNumber", optional_string>>,
                    <<"cubicCapacity", optional_number>>,
                    <<"seatingCapacity", integer>>, <<"bodyType", string>>,
                    <<"estimatedValue", optional_number>> >>,
                 <<"registrationMark", "makeAndModel", "yearOfManufacture",
                   "chassisNumber", "seatingCapacity", "bodyType">>)
schema_liabilityLimits ==
    ObjectSchema(<< <<"bodilyInjury", number>>, <<"propertyDamage", number>> >>,
                 <<"bodilyInjury", "propertyDamage">>)
schema_excess ==
    ObjectSchema(<< <<"thirdPartyProperty", optional_number>>,
                    <<"youngDriver", optional_number>>,
                    <<"inexperiencedDriver", optional_number>>,
                    <<"unnamedDriver", optional_number>> >>, <<>>)
schema_coverage(excess) ==
    ObjectSchema(<< <<"typeOfCover", string>>,
                    <<"liabilityLimits", schema_liabilityLimits>>,
                    <<"excess", excess>>, <<"limitationsOnUse", string>>,
                    <<"authorizedDrivers", string>> >>,
                 <<"typeOfCover", "liabilityLimits", "excess", "limitationsOnUse",
                   "authorizedDrivers">>)
schema_levies ==
    ObjectSchema(<< <<"mib", optional_number>>,
                    <<"ia", LeafSchema(<<"number", "string", "null">>)>> >>, <<>>)
schema_premiumAndDiscounts ==
    ObjectSchema(<< <<"premiumAmount", number>>, <<"totalPayable", number>>,
                    <<"noClaimDiscount", number>>, <<"levies", schema_levies>> >>,
                 <<"premiumAmount", "totalPayable", "noClaimDiscount">>)
schema_periodOfInsurance ==
    ObjectSchema(<< <<"start", string>>, <<"end", string>> >>, <<"start", "end">>)
schema_insurerAndPolicyDetails ==
    ObjectSchema(<< <<"insurerName", string>>, <<"policyNumber", string>>,
                    <<"periodOfInsurance", schema_periodOfInsurance>>,
                    <<"dateOfIssue", optional_string>> >>,
                 <<"insurerName", "policyNumber", "periodOfInsurance">>)
schema_additionalEndorsements ==
    ObjectSchema(<< <<"endorsements", optional_list>>,
                    <<"hirePurchaseMortgagee", optional_string>> >>, <<>>)
schema_root(excess) ==
    ObjectSchema(<< <<"policyholder", schema_policyholder>>,
                    <<"vehicle", schema_vehicle>>,
                    <<"coverage", schema_coverage(excess)>>,
                    <<"premiumAndDiscounts", schema_premiumAndDiscounts>>,
                    <<"insurerAndPolicyDetails", schema_insurerAndPolicyDetails>>,
                    <<"additionalEndorsements", schema_additionalEndorsements>> >>,
                 <<"policyholder", "vehicle", "coverage", "premiumAndDiscounts",
                   "insurerAndPolicyDetails">>)

PolicySchema == schema_root(schema_excess)
\* The same schema with  "excess": true , a schema that accepts anything
OpenExcessSchema == schema_root(BoolSchema)

\* validator.json: not there, not JSON, or JSON that holds a schema
MissingFile == [kind |-> "missing"]
MalformedFile == [kind |-> "malformed"]
FileOf(content) == [kind |-> "json", content |-> content]
SchemaFiles ==
    {MissingFile, MalformedFile, FileOf(InvalidSchema), FileOf(BoolSchema),
     FileOf(PolicySchema), FileOf(OpenExcessSchema)}

\* An exception, with str(e)
Exception(type, message) == [type |-> type, message |-> message]
\* A loader that gives the empty schema {} for a file it cannot read
load_schema_empty_when_unreadable(file) ==
    IF file.kind \in {"missing", "malformed"} THEN LeafSchema(<<>>) ELSE file.content
\* _load_schema: the schema, or the exception raised
load_schema(file) ==
    CASE file.kind = "missing" ->
           Exception("FileNotFoundError", "Schema file not found: validator.json")
      [] file.kind = "malformed" ->
           Exception("JSONDecodeError", "Expecting value: line 1 column 1 (char 0)")
      [] OTHER -> file.content
IsException(x) == "type" \in DOMAIN x

(***************************************************************************)
(* repr() of a value, as jsonschema writes it into a message               *)
(***************************************************************************)
RECURSIVE decimal(_)
decimal(n) ==
    IF n < 10 THEN <<"0", "1", "2", "3", "4", "5", "6", "7", "8", "9">>[n + 1]
    ELSE decimal(n \div 10) \o decimal(n % 10)
int_repr(n) == IF n < 0 THEN "-" \o decimal(-n) ELSE decimal(n)
RECURSIVE fraction(_, _)
fraction(n, width) ==
    IF width = 0 THEN "" ELSE fraction(n \div 10, width - 1) \o decimal(n % 10)
float_repr(num, scale) ==
    LET a == IF num < 0 THEN -num ELSE num
        whole == a \div Pow10(scale)
        frac == IF scale = 0 THEN "0" ELSE fraction(a % Pow10(scale), scale)
    IN  (IF num < 0 THEN "-" ELSE "") \o decimal(whole) \o "." \o frac
RECURSIVE comma_joined(_)
comma_joined(texts) ==
    IF texts = <<>> THEN ""
    ELSE IF Len(texts) = 1 THEN texts[1]
    ELSE texts[1] \o ", " \o comma_joined(Tail(texts))
quoted(s) == "'" \o s \o "'"
\* The keys of a mapping in one order: the model keeps no insertion order
RECURSIVE keys_in_order(_)
keys_in_order(S) ==
    IF S = {} THEN <<>>
    ELSE LET k == CHOOSE x \in S : TRUE IN <<k>> \o keys_in_order(S \ {k})
RECURSIVE python_repr(_)
python_repr(node) ==
    CASE node.t = "str" -> quoted(node.s)
      [] node.t = "int" -> int_repr(node.n)
      [] node.t = "float" ->
           IF ~IsInf(node) THEN float_repr(node.num, node.scale)
           ELSE IF node.inf < 0 THEN "-inf" ELSE "inf"
      [] node.t = "None" -> "None"
      [] node.t = "list" ->
           "[" \o comma_joined([i \in DOMAIN node.items |->
                                   quoted(node.items[i])]) \o "]"
      [] node.t = "dict" ->
           LET keys == keys_in_order(DOMAIN node.m)
           IN  "{" \o comma_joined([i \in DOMAIN keys |->
                        quoted(keys[i]) \o ": " \o python_repr(node.m[keys[i]])])
                   \o "}"

(***************************************************************************)
(* jsonschema.validate with the keywords type, required and properties     *)
(***************************************************************************)
is_type(node, type) ==
    CASE type = "object" -> node.t = "dict"
      [] type = "string" -> node.t = "str"
      [] type = "integer" -> node.t = "int"
      [] type = "number" -> node.t \in {"int", "float"}
      [] type = "array" -> node.t = "list"
      [] type = "null" -> node.t = "None"
      [] OTHER -> FALSE

ValidationError(path, message) ==
    [type |-> "ValidationError", path |-> path, message |-> message]

\* Every error that iter_errors yields for the instance at a path
RECURSIVE violations(_, _, _)
violations(instance, s, path) ==
    IF s.kind = "bool" THEN {}
    ELSE LET type_errors ==
                 IF s.types # <<>> /\ \A i \in DOMAIN s.types :
                                          ~is_type(instance, s.types[i])
                 THEN {ValidationError(path,
                          python_repr(instance) \o " is not of type " \o
                          comma_joined([i \in DOMAIN s.types |-> quoted(s.types[i])]))}
                 ELSE {}
             required_errors ==
                 IF IsDict(instance)
                 THEN {ValidationError(path,
                          quoted(s.required[i]) \o " is a required property") :
                       i \in {j \in DOMAIN s.required :
                                ~Has(instance, s.required[j])}}
                 ELSE {}
             properties_errors ==
                 IF IsDict(instance)
                 THEN UNION {violations(instance.m[s.properties[i][1]],
                                        s.properties[i][2],
                                        Append(path, s.properties[i][1])) :
                             i \in {j \in DOMAIN s.properties :
                                      Has(instance, s.properties[j][1])}}
                 ELSE {}
         IN  type_errors \cup required_errors \cup properties_errors

(***************************************************************************)
(* _check_missing_fields.  The list is appended to in place, so what was   *)
(* appended before an exception stays in it.                               *)
(***************************************************************************)
Scanned(raised, missing) == [raised |-> raised, missing |-> missing]

\* A path that leaves the prefix out
current_path_unprefixed(prefix, prop_name) == prop_name
\* f"{prefix}.{prop_name}" if prefix else prop_name
current_path(prefix, prop_name) ==
    IF prefix # "" THEN prefix \o "." \o prop_name ELSE prop_name

\* A test that takes only an absent field for missing
is_missing_absent_only(d, prop_name) == ~Has(d, prop_name)
\* A test that takes every falsy value for missing:  not data.get(prop_name)
is_missing_or_falsy(d, prop_name) ==
    \/ ~Has(d, prop_name)
    \/ d.m[prop_name] \in {NoneV, IntV(0), FloatV(0, 0), EmptyDict,
                           ListV(<<>>), [t |-> "str", s |-> ""]}
\* prop_name not in data or data[prop_name] is None
is_missing(d, prop_name) == ~Has(d, prop_name) \/ d.m[prop_name] = NoneV

RECURSIVE check_missing_fields(_, _, _, _)
RECURSIVE scan_properties(_, _, _, _, _)
check_missing_fields(d, s, missing, prefix) ==
    \* "properties" not in schema  raises TypeError on a boolean schema
    IF s.kind = "bool" THEN Scanned(TRUE, missing)
    ELSE IF ~s.has_properties THEN Scanned(FALSE, missing)
    ELSE scan_properties(d, s, missing, prefix, 1)
\* The loop over schema["properties"].items(), from its i-th item on
scan_properties(d, s, missing, prefix, i) ==
    IF i > Len(s.properties) THEN Scanned(FALSE, missing)
    ELSE LET prop_name == s.properties[i][1]
             prop_schema == s.properties[i][2]
             path == current_path(prefix, prop_name)
             is_required == \E j \in DOMAIN s.required : s.required[j] = prop_name
             listed ==
                 IF is_required /\ is_missing(d, prop_name)
                 THEN Append(missing, path)
                 ELSE missing
         IN  IF Has(d, prop_name) /\ IsDict(d.m[prop_name])
             THEN IF prop_schema.kind = "bool" THEN Scanned(TRUE, listed)
                  ELSE IF prop_schema.has_properties
                  THEN LET nested == check_missing_fields(d.m[prop_name], prop_schema,
                                                          listed, path)
                       IN  IF nested.raised THEN nested
                           ELSE scan_properties(d, s, nested.missing, prefix, i + 1)
                  ELSE scan_properties(d, s, listed, prefix, i + 1)
             ELSE scan_properties(d, s, listed, prefix, i + 1)

\* ValidationResult.__init__
ValidationResult(is_valid, errs, missing) ==
    [is_valid |-> is_valid, errors |-> errs, missing_fields |-> missing]

(***************************************************************************)
(* Reading a document and a response                                       *)
(***************************************************************************)
Absent == [t |-> "absent"]

\* The node at a path of keys, Absent when a key is missing or the walk
\* meets a value that is no mapping
RECURSIVE get_path(_, _)
get_path(node, keys) ==
    IF keys = <<>> THEN node
    ELSE IF ~IsDict(node) \/ ~Has(node, Head(keys)) THEN Absent
    ELSE get_path(node.m[Head(keys)], Tail(keys))

IsPrefix(p, q) == Len(p) <= Len(q) /\ SubSeq(q, 1, Len(p)) = p

\* What line i of the response assigns, with the keys of its path
Parsed(i) ==
    LET kv == parse_line(response[i])
    IN  IF kv.skip THEN SkipLine
        ELSE [skip |-> FALSE, keys |-> path_keys(kv.key), value |-> kv.value]
ParsedLines == [i \in 1..Len(response) |-> Parsed(i)]

\* The loop has just been through line lineNo - 1 without raising
AtLine == pc = "lines" /\ lineNo > 1
JustParsed == Parsed(lineNo - 1)

Returned == pc = "done"

InResponse(line) == \E i \in 1..Len(response) : response[i] = line

(***************************************************************************)
(* The documents that validate_extracted_data is checked on: the document  *)
(* of test_schema_validation, and what up to MaxEdits edits make of it     *)
(***************************************************************************)
MaxEdits == 2

Str(s) == [t |-> "str", s |-> s]
Mapping(items) ==
    DictV([k \in {items[i][1] : i \in DOMAIN items} |->
             LET i == CHOOSE j \in DOMAIN items : items[j][1] = k IN items[i][2]])

valid_data ==
    Mapping(<<
      <<"policyholder",
        Mapping(<< <<"name", Str("John Doe")>>, <<"address", Str("123 Test St")>>,
                   <<"occupation", Str("Engineer")>> >>)>>,
      <<"vehicle",
        Mapping(<< <<"registrationMark", Str("AB1234")>>,
                   <<"makeAndModel", Str("Toyota Camry")>>,
                   <<"yearOfManufacture", IntV(2020)>>,
                   <<"chassisNumber", Str("CH123456")>>,
                   <<"seatingCapacity", IntV(5)>>, <<"bodyType", Str("Sedan")>> >>)>>,
      <<"coverage",
        Mapping(<< <<"typeOfCover", Str("Comprehensive")>>,
                   <<"liabilityLimits",
                     Mapping(<< <<"bodilyInjury", IntV(100000000)>>,
                                <<"propertyDamage", IntV(2000000)>> >>)>>,
                   <<"excess", EmptyDict>>,
                   <<"limitationsOnUse", Str("Private use only")>>,
                   <<"authorizedDrivers", Str("Any licensed driver")>> >>)>>,
      <<"premiumAndDiscounts",
        Mapping(<< <<"premiumAmount", FloatV(5000, 0)>>,
                   <<"totalPayable", FloatV(5500, 0)>>,
                   <<"noClaimDiscount", FloatV(60, 0)>> >>)>>,
      <<"insurerAndPolicyDetails",
        Mapping(<< <<"insurerName", Str("Test Insurance")>>,
                   <<"policyNumber", Str("POL123456")>>,
                   <<"periodOfInsurance",
                     Mapping(<< <<"start", Str("01/01/2024")>>,
                                <<"end", Str("31/12/2024")>> >>)>> >>)>> >>)

\* d with the node at a path replaced, or removed when the node is Absent;
\* d itself when the path does not lead through mappings
RECURSIVE edited(_, _, _)
edited(d, keys, node) ==
    IF ~IsDict(d) THEN d
    ELSE IF Len(keys) = 1
    THEN IF node = Absent
         THEN (IF Has(d, keys[1]) THEN Pop(d, keys[1]) ELSE d)
         ELSE Put(d, keys[1], node)
    ELSE IF Has(d, Head(keys))
    THEN Put(d, Head(keys), edited(d.m[Head(keys)], Tail(keys), node))
    ELSE d

q_yearOfManufacture == <<"vehicle", "yearOfManufacture">>
q_end == <<"insurerAndPolicyDetails", "periodOfInsurance", "end">>
q_excess == <<"coverage", "excess">>
q_liabilityLimits == <<"coverage", "liabilityLimits">>

EditPool ==
    << <<q_yearOfManufacture, Absent>>,
       <<q_yearOfManufacture, NoneV>>,
       <<q_yearOfManufacture, Str("2020")>>,
       <<<<"vehicle", "seatingCapacity">>, IntV(0)>>,
       <<<<"vehicle">>, Absent>>,
       <<<<"policyholder", "name">>, Str("UNKNOWN")>>,
       <<<<"policyholder">>, NoneV>>,
       <<q_end, Absent>>,
       <<q_excess, Absent>>,
       <<q_excess, NoneV>>,
       <<q_liabilityLimits, Str("unlimited")>>,
       <<<<"premiumAndDiscounts", "levies">>,
         Mapping(<< <<"mib", FloatV(0, 0)>>, <<"ia", Str("INCLUDED")>> >>)>> >>

\* The edits of a set of indices, made in the order of the pool
RECURSIVE with_edits(_, _, _)
with_edits(d, chosen, i) ==
    IF i > Len(EditPool) THEN d
    ELSE with_edits(IF i \in chosen THEN edited(d, EditPool[i][1], EditPool[i][2])
                    ELSE d, chosen, i + 1)

Documents ==
    {with_edits(valid_data, chosen, 1) :
       chosen \in {c \in SUBSET DOMAIN EditPool : Cardinality(c) <= MaxEdits}}

(***************************************************************************)
(* validate_extracted_data as a state machine                              *)
(***************************************************************************)
ValidateInit ==
    /\ document \in Documents
    /\ schema_file \in SchemaFiles
    /\ schema = NoValue /\ errors = <<>> /\ missing_fields = <<>>
    /\ exc = NoValue /\ returned = NoValue
    /\ vpc = "load"
    /\ ParseIdle /\ AcquireIdle /\ BoundaryIdle

\* schema = _load_schema()
LoadSchema ==
    /\ vpc = "load"
    /\ LET loaded == load_schema(schema_file)
       IN  IF IsException(loaded)
           THEN exc' = loaded /\ vpc' = "unexpected" /\ UNCHANGED schema
           ELSE schema' = loaded /\ vpc' = "validate" /\ UNCHANGED exc
    /\ UNCHANGED <<document, schema_file, errors, missing_fields, returned>>
    /\ UNCHANGED <<parseVars, acquireVars, boundaryVars>>

\* validate(instance=data, schema=schema): check_schema first, then the best
\* match of the errors is raised; which of the errors that is, is left open
Validate ==
    /\ vpc = "validate"
    /\ IF schema = InvalidSchema
       THEN exc' = Exception("SchemaError", "12 is not valid under any of the given schemas")
            /\ vpc' = "unexpected"
       ELSE LET found == violations(document, schema, <<>>)
            IN  IF found = {}
                THEN vpc' = "scan" /\ UNCHANGED exc
                ELSE vpc' = "violation" /\ exc' \in found
    /\ UNCHANGED <<document, schema_file, schema, errors, missing_fields, returned>>
    /\ UNCHANGED <<parseVars, acquireVars, boundaryVars>>

\* _check_missing_fields(data, schema, missing_fields) and the return of the
\* valid result
ScanMissing ==
    /\ vpc = "scan"
    /\ LET scan == check_missing_fields(document, schema, missing_fields, "")
       IN  /\ missing_fields' = scan.missing
           /\ IF scan.raised
              THEN /\ exc' = Exception("TypeError",
                                       "argument of type 'bool' is not iterable")
                   /\ vpc' = "unexpected"
                   /\ UNCHANGED returned
              ELSE /\ returned' = [data |-> document,
                                   result |-> ValidationResult(TRUE, <<>>, scan.missing)]
                   /\ vpc' = "done"
                   /\ UNCHANGED exc
    /\ UNCHANGED <<document, schema_file, schema, errors>>
    /\ UNCHANGED <<parseVars, acquireVars, boundaryVars>>

\* " -> ".join(str(p) for p in e.path)
RECURSIVE arrow_joined(_)
arrow_joined(path) ==
    IF Len(path) = 1 THEN path[1]
    ELSE path[1] \o " -> " \o arrow_joined(Tail(path))
\* A path written with the segments joined by '.'
RECURSIVE dot_joined(_)
dot_joined(path) ==
    IF Len(path) = 1 THEN path[1] ELSE path[1] \o "." \o dot_joined(Tail(path))
error_path_dotted(e) == IF e.path # <<>> THEN dot_joined(e.path) ELSE "root"
error_path(e) == IF e.path # <<>> THEN arrow_joined(e.path) ELSE "root"
error_msg(e) == error_path(e) \o ": " \o e.message

\* except ValidationError: the error string, then the schema is loaded and
\* scanned again, and an exception of that is passed over
HandleValidationError ==
    /\ vpc = "violation"
    /\ LET loaded == load_schema(schema_file)
           scan == IF IsException(loaded) THEN Scanned(TRUE, missing_fields)
                   ELSE check_missing_fields(document, loaded, missing_fields, "")
       IN  /\ errors' = Append(errors, error_msg(exc))
           /\ missing_fields' = scan.missing
           /\ returned' = [data |-> document,
                           result |-> ValidationResult(FALSE, errors', scan.missing)]
    /\ vpc' = "done"
    /\ UNCHANGED <<document, schema_file, schema, exc>>
    /\ UNCHANGED <<parseVars, acquireVars, boundaryVars>>

\* except Exception: ValidationResult(is_valid=False, errors=errors)
HandleUnexpected ==
    /\ vpc = "unexpected"
    /\ errors' = Append(errors, "Unexpected validation error: " \o exc.message)
    /\ returned' = [data |-> document,
                    result |-> ValidationResult(FALSE, errors', <<>>)]
    /\ vpc' = "done"
    /\ UNCHANGED <<document, schema_file, schema, missing_fields, exc>>
    /\ UNCHANGED <<parseVars, acquireVars, boundaryVars>>

ValidateNext ==
    \/ LoadSchema
    \/ Validate
    \/ ScanMissing
    \/ HandleValidationError
    \/ HandleUnexpected

SpecValidate == ValidateInit /\ [][ValidateNext]_vars

(***************************************************************************)
(* api/main.py: extract_policy.  The three stages are the state machines   *)
(* above, started by the endpoint one after the other.                     *)
(***************************************************************************)
MaxUploadPages == 1
MIN_TEXT_LENGTH == 50

v_1e999_line == Line(p_totalPayable, v_1e999)
\* What the generation capability answers, when it answers
GeneratedResponses ==
    { <<Line(p_name, v_JaneTan), Line(p_premiumAmount, v_HKD5500)>>,
      <<Line(p_yearOfManufacture, N_A), <<" ", "note", " ">>>>,
      <<Line(<<"additionalEndorsements">>, <<"x">>)>>,
      <<Line(<<"vehicle">>, <<"x">>)>>,
      <<v_1e999_line>> }

\* The detail is the text that comes before str(e)
HTTPException(status_code, detail) ==
    [status_code |-> status_code, detail |-> detail]
NoWarnings == "(no warnings key)"
\* JSONResponse(content=response), with status 200
JSONResponse(content) == [status_code |-> 200, content |-> content]

\* json.dumps(content, allow_nan=False) in JSONResponse.render raises
\* ValueError on an infinity
RECURSIVE json_compliant(_)
json_compliant(node) ==
    IF node.t = "dict" THEN \A k \in DOMAIN node.m : json_compliant(node.m[k])
    ELSE ~IsInf(node)

\* A test that takes every text that is not empty
too_short_only_if_empty(text) == length(text) = 0
\* not pdf_text or len(pdf_text.strip()) < 50
too_short(text) == length(text) = 0 \/ length(text_strip(text)) < MIN_TEXT_LENGTH

BoundaryInit ==
    /\ bpc = "start" /\ pdf_text = NoValue /\ extracted_data = NoValue
    /\ http = NoValue /\ invoked = <<>>
    /\ tmp_file = "none" /\ tmp_file_path = "unbound" /\ unlink = "not called"
    /\ AcquireIdle /\ ParseIdle /\ ValidateIdle

\* if not file.filename.endswith('.pdf'): raise HTTPException(400)
CheckFilename ==
    /\ bpc = "start"
    /\ \E is_pdf \in BOOLEAN :
          IF is_pdf
          THEN bpc' = "upload" /\ UNCHANGED http
          ELSE /\ bpc' = "done"
               /\ http' = HTTPException(400, "File must be a PDF (.pdf extension required)")
    /\ UNCHANGED <<pdf_text, extracted_data, invoked>>
    /\ UNCHANGED <<parseVars, acquireVars, validateVars>>
    /\ UNCHANGED uploadVars

\* with tempfile.NamedTemporaryFile(delete=False, suffix='.pdf') creates the
\* file; content = await file.read() and tmp_file.write(content) may raise,
\* and tmp_file_path is assigned only after them.  An exception leaves
\* through the finally clause and is answered by the global handler.
SaveUpload ==
    /\ bpc = "upload"
    /\ tmp_file' = "exists"
    /\ \E written \in BOOLEAN :
          IF written
          THEN tmp_file_path' = "bound" /\ bpc' = "step1" /\ UNCHANGED http
          ELSE /\ http' = HTTPException(500, "Internal server error")
               /\ bpc' = "finally"
               /\ UNCHANGED tmp_file_path
    /\ UNCHANGED <<pdf_text, extracted_data, invoked, unlink>>
    /\ UNCHANGED <<parseVars, acquireVars, validateVars>>

\* extract_text_from_pdf(tmp_file_path) is called, with use_ocr = True
CallExtractText ==
    /\ bpc = "step1"
    /\ pdf' \in {[exists |-> FALSE, pages |-> 0]}
                 \cup {[exists |-> TRUE, pages |-> n] : n \in 0..MaxUploadPages}
    /\ use_ocr' = TRUE
    /\ apc' = "start"
    /\ invoked' = Append(invoked, "extract_text_from_pdf")
    /\ bpc' = "acquiring"
    /\ UNCHANGED <<page, lang, text_parts, text_content, ocr_text, result, calls,
                   direct_seen, ocr_seen>>
    /\ UNCHANGED <<pdf_text, extracted_data, http>>
    /\ UNCHANGED <<parseVars, validateVars>>
    /\ UNCHANGED uploadVars

\* The call has ended: an exception and a text of fewer than 50 stripped
\* characters both end in HTTPException(422).  The locals of the call, and
\* the record of what its libraries did, are gone.
TextExtracted ==
    /\ bpc = "acquiring"
    /\ apc \in {"returned", "raised"}
    /\ IF apc = "raised"
       THEN /\ http' = HTTPException(422, "Failed to extract text from PDF")
            /\ bpc' = "finally"
            /\ UNCHANGED pdf_text
       ELSE /\ pdf_text' = result
            /\ IF too_short(result)
               THEN /\ http' = HTTPException(422, "Failed to extract text from PDF")
                    /\ bpc' = "finally"
               ELSE bpc' = "step2" /\ UNCHANGED http
    /\ page' = 0 /\ lang' = "none"
    /\ text_parts' = <<>> /\ text_content' = <<>> /\ ocr_text' = <<>> /\ result' = <<>>
    /\ calls' = {} /\ direct_seen' = <<>> /\ ocr_seen' = <<>>
    /\ UNCHANGED <<pdf, use_ocr, apc>>
    /\ UNCHANGED <<extracted_data, invoked>>
    /\ UNCHANGED <<parseVars, validateVars>>
    /\ UNCHANGED uploadVars

\* extractor = AIExtractor(): ValueError without an API key
NoApiKey ==
    /\ bpc = "step2"
    /\ http' = HTTPException(500, "AI extraction failed")
    /\ bpc' = "finally"
    /\ UNCHANGED <<pdf_text, extracted_data, invoked>>
    /\ UNCHANGED <<parseVars, acquireVars, validateVars>>
    /\ UNCHANGED uploadVars

\* extractor.extract(pdf_text): chat.completions.create raises, answers with
\* no content, or answers with a text that _parse_key_value_pairs is called on
Generate ==
    /\ bpc = "step2"
    /\ \E answer \in {[kind |-> "raised"], [kind |-> "empty"]}
                       \cup {[kind |-> "text", lines |-> r] : r \in GeneratedResponses} :
          IF answer.kind \in {"raised", "empty"}
          THEN /\ invoked' = Append(invoked, "chat.completions.create")
               /\ http' = HTTPException(500, "AI extraction failed")
               /\ bpc' = "finally"
               /\ UNCHANGED <<response, lineNo, data, pc>>
          ELSE /\ invoked' = invoked \o <<"chat.completions.create",
                                          "_parse_key_value_pairs">>
               /\ response' = answer.lines /\ lineNo' = 1 /\ data' = initial_data
               /\ pc' = "lines"
               /\ bpc' = "parsing"
               /\ UNCHANGED http
    /\ UNCHANGED <<pdf_text, extracted_data>>
    /\ UNCHANGED <<acquireVars, validateVars>>
    /\ UNCHANGED uploadVars

\* extract has ended: with an exception, or with the document that
\* validate_and_format is called on
Extracted ==
    /\ bpc = "parsing"
    /\ pc \in {"done", "raised"}
    /\ IF pc = "raised"
       THEN /\ http' = HTTPException(500, "AI extraction failed")
            /\ bpc' = "finally"
            /\ UNCHANGED <<extracted_data, invoked, validateVars>>
       ELSE /\ extracted_data' = data
            /\ invoked' = Append(invoked, "validate_and_format")
            /\ document' = data
            /\ schema_file' \in SchemaFiles
            /\ vpc' = "load"
            /\ bpc' = "validating"
            /\ UNCHANGED <<schema, errors, missing_fields, exc, returned, http>>
    /\ UNCHANGED pdf_text
    /\ UNCHANGED <<parseVars, acquireVars>>
    /\ UNCHANGED uploadVars

\* The response is built from what validate_and_format returned; an
\* exception of JSONResponse ends in HTTPException(500)
Respond ==
    /\ bpc = "validating"
    /\ vpc = "done"
    /\ LET validated_data == returned.data
           validation_result == returned.result
           content ==
               [success |-> TRUE,
                data |-> validated_data,
                validation |-> [is_valid |-> validation_result.is_valid,
                                errors |-> validation_result.errors,
                                missing_fields |-> validation_result.missing_fields],
                warnings |-> IF ~validation_result.is_valid
                             THEN "Extracted data has validation errors. Please review."
                             ELSE NoWarnings]
       IN  http' = IF json_compliant(validated_data)
                   THEN JSONResponse(content)
                   ELSE HTTPException(500, "Validation failed")
    /\ bpc' = "finally"
    /\ UNCHANGED <<pdf_text, extracted_data, invoked>>
    /\ UNCHANGED <<parseVars, acquireVars, validateVars>>
    /\ UNCHANGED uploadVars

\* finally: try: Path(tmp_file_path).unlink() except Exception: logged.
\* The name tmp_file_path raises UnboundLocalError when it was never
\* assigned; unlink itself may raise; either is logged as a warning and the
\* response or exception of the request goes on.
Cleanup ==
    /\ bpc = "finally"
    /\ IF tmp_file_path = "unbound"
       THEN UNCHANGED <<tmp_file, unlink>>
       ELSE \E deleted \in BOOLEAN :
               IF deleted
               THEN tmp_file' = "deleted" /\ unlink' = "done"
               ELSE unlink' = "raised" /\ UNCHANGED tmp_file
    /\ bpc' = "done"
    /\ UNCHANGED <<pdf_text, extracted_data, http, invoked, tmp_file_path>>
    /\ UNCHANGED <<parseVars, acquireVars, validateVars>>

BoundaryNext ==
    \/ CheckFilename
    \/ SaveUpload
    \/ CallExtractText
    \/ AcquireNext
    \/ TextExtracted
    \/ NoApiKey
    \/ Generate
    \/ ParseNext
    \/ Extracted
    \/ ValidateNext
    \/ Respond
    \/ Cleanup

SpecBoundary == BoundaryInit /\ [][BoundaryNext]_vars

(***************************************************************************)
(* Claims about the parser, checked under SpecParse                        *)
(***************************************************************************)
RequiredStringPaths ==
    { <<"policyholder", "name">>, <<"policyholder", "address">>,
      <<"policyholder", "occupation">>,
      <<"vehicle", "registrationMark">>, <<"vehicle", "makeAndModel">>,
      <<"vehicle", "chassisNumber">>, <<"vehicle", "bodyType">>,
      <<"coverage", "typeOfCover">>,
      <<"insurerAndPolicyDetails", "insurerName">>,
      <<"insurerAndPolicyDetails", "policyNumber">>,
      <<"insurerAndPolicyDetails", "periodOfInsurance", "start">>,
      <<"insurerAndPolicyDetails", "periodOfInsurance", "end">> }
RequiredIntegerPaths ==
    { <<"vehicle", "yearOfManufacture">>, <<"vehicle", "seatingCapacity">>,
      <<"coverage", "liabilityLimits", "bodilyInjury">>,
      <<"coverage", "liabilityLimits", "propertyDamage">> }
RequiredFloatPaths ==
    { <<"premiumAndDiscounts", "premiumAmount">>,
      <<"premiumAndDiscounts", "totalPayable">>,
      <<"premiumAndDiscounts", "noClaimDiscount">> }
RequiredPaths ==
    RequiredStringPaths \cup RequiredIntegerPaths \cup RequiredFloatPaths
        \cup { <<"coverage", "limitationsOnUse">>, <<"coverage", "authorizedDrivers">> }

\* C1: whenever parse returns a Document, every required path is present as
\* a key and its value is not null.
C1_RequiredPresent ==
    Returned => \A p \in RequiredPaths : get_path(data, p).t \notin {"absent", "None"}

\* A returned Document of a response with a null year of manufacture and a
\* line below policyholder.name
C1_Witness ==
    /\ Returned
    /\ InResponse(Line(p_yearOfManufacture, N_A))
    /\ InResponse(Line(<<"policyholder", "name", "first">>, <<"X">>))

\* The canonical default the claim gives each required path
ClaimedDefault(p) ==
    IF p = <<"coverage", "limitationsOnUse">>
    THEN [t |-> "str", s |-> "UNKNOWN - standard usage restrictions apply"]
    ELSE IF p = <<"coverage", "authorizedDrivers">>
    THEN [t |-> "str", s |-> "UNKNOWN - standard driver authorization applies"]
    ELSE IF p \in RequiredIntegerPaths THEN [t |-> "int", n |-> 0]
    ELSE IF p \in RequiredFloatPaths THEN [t |-> "float", num |-> 0, scale |-> 0]
    ELSE [t |-> "str", s |-> "UNKNOWN"]

\* The parsed line kv supplies a usable value for the required path p: it
\* passes the line filter (it has a colon, and its value is neither empty nor
\* a plain null), its path is p or extends below p, and it is not a line for
\* a numeric or integer field p whose value is "N/A" or unparseable.
SuppliesUsable(p, kv) ==
    /\ ~kv.skip
    /\ IsPrefix(p, kv.keys)
    /\ ~( /\ kv.keys = p
          /\ p \in RequiredIntegerPaths \cup RequiredFloatPaths
          /\ coerce(p[Len(p)], kv.value) = NoneV )

C3_ParseNeverRaises == pc # "raised"

FinalKey(keys) == keys[Len(keys)]

SentinelStringFields ==
    {"name", "address", "occupation", "registrationMark", "makeAndModel",
     "chassisNumber", "bodyType", "typeOfCover", "limitationsOnUse",
     "authorizedDrivers", "insurerName", "policyNumber"}

StartsWithSentinel(value) ==
    startswith(upper(value), UNKNOWN) \/ startswith(upper(value), REDACTED)

\* The value a line has after its first colon, trimmed
WrittenValue(raw) ==
    LET line == strip(raw)
    IN  IF Occurs(line, ":") THEN strip(split_once(line, ":")[2]) ELSE <<>>

\* C6: a line for a required string field whose value is "N/A", "UNKNOWN" or
\* "REDACTED" in any letter case stores that token in uppercase as a string;
\* a longer value that starts with UNKNOWN or REDACTED is stored verbatim;
\* such a line is never dropped by the line filter and never stores null.
C6_SentinelPreserved ==
    AtLine =>
        LET just == JustParsed
            written == WrittenValue(response[lineNo - 1])
            stored == get_path(data, just.keys)
        IN  /\ upper(written) = N_A \/ StartsWithSentinel(written) => ~just.skip
            /\ ~just.skip /\ FinalKey(just.keys) \in SentinelStringFields =>
                  /\ stored.t = "str"
                  /\ upper(just.value) \in {N_A, UNKNOWN, REDACTED} =>
                        stored.s \in {"N/A", "UNKNOWN", "REDACTED"}
                  /\ just.value \in {N_A, v_n_a} => stored.s = "N/A"
                  /\ just.value = v_unknown => stored.s = "UNKNOWN"
                  /\ just.value \in {REDACTED, v_Redacted} => stored.s = "REDACTED"
                  /\ just.value = v_UnknownOwner => stored.s = "Unknown - owner"
                  /\ just.value = v_REDACTEDnote => stored.s = "REDACTED note"
                  /\ StartsWithSentinel(just.value)
                        /\ upper(just.value) \notin {UNKNOWN, REDACTED} =>
                        stored.s = join_symbols(just.value)

\* The line insurerAndPolicyDetails.insurerName: Redacted has just stored
\* the string "REDACTED"
C6_Witness ==
    /\ AtLine
    /\ response[lineNo - 1] = Line(p_insurerName, v_Redacted)
    /\ get_path(data, p_insurerName) = [t |-> "str", s |-> "REDACTED"]

CurrencyFields ==
    {"premiumAmount", "totalPayable", "noClaimDiscount", "bodilyInjury",
     "propertyDamage", "cubicCapacity", "estimatedValue", "mib",
     "thirdPartyProperty", "youngDriver", "inexperiencedDriver", "unnamedDriver"}

\* C7: a line for a currency or number field stores an integer when the
\* value, with every '$', ',' and 'HKD' removed and trimmed, is an integral
\* numeral, a float when it is a decimal numeral with a '.', and null when it
\* is empty, "N/A" or no numeral; "HKD 5,500.00" stores the float 5500.0.
C7_CurrencyCoercion ==
    AtLine =>
        LET just == JustParsed
            stored == get_path(data, just.keys)
        IN  ~just.skip /\ FinalKey(just.keys) \in CurrencyFields =>
                /\ stored.t \in {"int", "float", "None"}
                /\ stored.t = "float" => Occurs(just.value, ".")
                /\ stored.t = "int" => ~Occurs(just.value, ".")
                /\ just.value = v_HKD5500 =>
                      stored = [t |-> "float", num |-> 5500, scale |-> 0]
                /\ just.value = v_Dollar1200 => stored = [t |-> "int", n |-> 1200]
                /\ just.value = v_3050 =>
                      stored = [t |-> "float", num |-> 305, scale |-> 1]
                /\ just.value \in {N_A, v_12x, v_Dollar} => stored = [t |-> "None"]

\* The line premiumAndDiscounts.premiumAmount: HKD 5,500.00 has just stored
\* the float 5500.0
C7_Witness ==
    /\ AtLine
    /\ response[lineNo - 1] = Line(p_premiumAmount, v_HKD5500)
    /\ get_path(data, p_premiumAmount) = [t |-> "float", num |-> 5500, scale |-> 0]

ListFields == {"namedDrivers", "endorsements"}

\* The number of ',' in a text
RECURSIVE Commas(_)
Commas(text) ==
    IF text = <<>> THEN 0
    ELSE (IF Head(text) = "," THEN 1 ELSE 0) + Commas(Tail(text))

\* C8: a line for namedDrivers or endorsements whose value is not "N/A"
\* stores the list of the comma-separated pieces of the value in order, each
\* trimmed, the empty ones dropped.
C8_ListCoercion ==
    AtLine =>
        LET just == JustParsed
            stored == get_path(data, just.keys)
        IN  ~just.skip /\ FinalKey(just.keys) \in ListFields /\ just.value # N_A =>
                /\ stored.t = "list"
                /\ Len(stored.items) <= Commas(just.value) + 1
                /\ \A k \in 1..Len(stored.items) : stored.items[k] # ""
                /\ just.value = v_Endorsements =>
                      stored.items = <<"Windscreen", "Roadside Assist">>
                /\ just.value = v_Drivers => stored.items = <<"Ann", "Bob">>
                /\ just.value = v_n_a => stored.items = <<"n/a">>

\* The line policyholder.namedDrivers: , Ann,, Bob , has just stored the
\* list of Ann and Bob
C8_Witness ==
    /\ AtLine
    /\ response[lineNo - 1] = Line(p_namedDrivers, v_Drivers)
    /\ get_path(data, p_namedDrivers) = [t |-> "list", items |-> <<"Ann", "Bob">>]

ListPaths == {p_namedDrivers, p_endorsements}

\* The lines that assign the path p itself
LinesFor(lines, p) == {i \in DOMAIN lines : ~lines[i].skip /\ lines[i].keys = p}
\* The lines that assign p, a path above it or a path below it
LinesTouching(lines, p) ==
    {i \in DOMAIN lines :
        ~lines[i].skip /\ (IsPrefix(p, lines[i].keys) \/ IsPrefix(lines[i].keys, p))}
Last(S) == CHOOSE i \in S : \A j \in S : j <= i

\* The last line to touch p assigns p itself, with the value "N/A"
EndsNotApplicable(lines, p) ==
    /\ LinesFor(lines, p) # {}
    /\ Last(LinesTouching(lines, p)) \in LinesFor(lines, p)
    /\ lines[Last(LinesFor(lines, p))].value = N_A

\* C9 as stated: with no line for a list-valued field, with only lines of an
\* empty value, or with an "N/A" value, the final Document holds the empty
\* list for the field.
C9_AbsentIsEmptyList ==
    Returned =>
        LET lines == ParsedLines
        IN  \A p \in ListPaths :
                LinesTouching(lines, p) = {} \/ EndsNotApplicable(lines, p) =>
                    get_path(data, p) = [t |-> "list", items |-> <<>>]

\* C9 as amended: an "N/A" value yields the empty list in the final
\* Document; with no line for the field, or only lines of an empty value,
\* the final Document does not have the field at all.
C9_NotApplicableIsEmptyList ==
    Returned =>
        LET lines == ParsedLines
        IN  \A p \in ListPaths :
                /\ EndsNotApplicable(lines, p) =>
                      get_path(data, p) = [t |-> "list", items |-> <<>>]
                /\ LinesTouching(lines, p) = {} => get_path(data, p) = Absent

\* A returned Document of a response with endorsements of "N/A" and named
\* drivers of an empty value: the one is the empty list, the other is absent
C9_Witness ==
    /\ Returned
    /\ InResponse(Line(p_endorsements, N_A))
    /\ InResponse(Line(p_namedDrivers, <<>>))
    /\ get_path(data, p_endorsements) = [t |-> "list", items |-> <<>>]
    /\ get_path(data, p_namedDrivers) = Absent

\* C10: a line for ia whose value is INCLUDED in any letter case stores the
\* string "INCLUDED", never a number and never null; any other value is
\* coerced as the currency fields are.
C10_IncludedUppercased ==
    AtLine =>
        LET just == JustParsed
            stored == get_path(data, just.keys)
        IN  ~just.skip /\ FinalKey(just.keys) = "ia" =>
                IF upper(just.value) = INCLUDED
                THEN stored = [t |-> "str", s |-> "INCLUDED"]
                ELSE stored = coerce_number(just.value)

\* The first ':' of a line
FirstColon(line) ==
    CHOOSE k \in 1..Len(line) : line[k] = ":" /\ \A j \in 1..(k - 1) : line[j] # ":"
KeyWritten(raw) == LET line == strip(raw) IN strip(SubSeq(line, 1, FirstColon(line) - 1))
ValueWritten(raw) ==
    LET line == strip(raw) IN strip(SubSeq(line, FirstColon(line) + 1, Len(line)))

NamesSentinel(value) ==
    \/ contains(upper(value), N_A)
    \/ contains(upper(value), UNKNOWN)
    \/ contains(upper(value), REDACTED)

\* The lines the claim has the parser ignore
Ignorable(raw) ==
    \/ strip(raw) = <<>>
    \/ ~Occurs(raw, ":")
    \/ ValueWritten(raw) = <<>>
    \/ (lower(ValueWritten(raw)) = NULL /\ ~NamesSentinel(ValueWritten(raw)))

\* C11: an iteration of the loop over an empty line, a line without a colon,
\* a line whose value is empty once trimmed, or a line whose value is the
\* plain token null in any letter case (and names no sentinel) assigns
\* nothing; over any other line it assigns, at the path written before the
\* first colon, the coercion of the value written after the first colon.
C11_LineFilter ==
    [][ pc = "lines" /\ lineNo <= Len(response) =>
          LET raw == response[lineNo]
          IN  IF Ignorable(raw)
              THEN data' = data /\ pc' = "lines" /\ lineNo' = lineNo + 1
              ELSE pc' = "lines" =>
                     LET keys == path_keys(KeyWritten(raw))
                     IN  get_path(data', keys) = coerce(FinalKey(keys), ValueWritten(raw)) ]_vars

\* The loop has been through the line vehicle.engineNumber: Null and the
\* document is as it was built
C11_Witness ==
    /\ AtLine /\ lineNo = 2
    /\ response[1] = Line(p_engineNumber, v_Null)
    /\ data = initial_data

\* The loop is over and the default completion is about to run
AtFill == pc = "lines" /\ lineNo > Len(response)

\* C12: on every Document on which the default completion completes, a
\* second application changes nothing; a completed Document is left as it is,
\* with its levies object or without it.
C12_FillIdempotent ==
    AtFill \/ Returned =>
        LET once == fill_missing_required_fields(data)
        IN  once # Raised =>
                /\ fill_missing_required_fields(once) = once
                /\ Returned => once = data

\* A completed Document that kept its levies object, backfilled, and that a
\* second completion leaves as it is
C12_Witness ==
    /\ Returned
    /\ InResponse(Line(p_mib, N_A))
    /\ get_path(data, p_mib) = [t |-> "float", num |-> 0, scale |-> 0]
    /\ fill_missing_required_fields(data) = data

LevyMembers == {"mib", "ia"}
LevyZero == [t |-> "float", num |-> 0, scale |-> 0]

\* The levies object with every null mib or ia set to 0.0
Backfilled(levies) ==
    [t |-> "dict",
     m |-> [k \in DOMAIN levies.m |->
              IF k \in LevyMembers /\ levies.m[k] = [t |-> "None"]
              THEN LevyZero ELSE levies.m[k]]]

IsNullMember(levies, k) == k \notin DOMAIN levies.m \/ levies.m[k] = [t |-> "None"]

\* C13 as stated: the default completion removes the levies object when mib
\* and ia are both null, explicitly or by absence, and otherwise sets every
\* null mib or ia to zero; a surviving levies object has no null mib or ia.
C13_NullLeviesRemoved ==
    /\ AtFill =>
          LET before == get_path(data, p_levies)
              filled == fill_missing_required_fields(data)
          IN  before.t = "dict" /\ filled # Raised =>
                  IF IsNullMember(before, "mib") /\ IsNullMember(before, "ia")
                  THEN get_path(filled, p_levies) = Absent
                  ELSE get_path(filled, p_levies) = Backfilled(before)
    /\ Returned =>
          LET levies == get_path(data, p_levies)
          IN  levies.t = "dict" => ~IsNullMember(levies, "mib") \/ ~IsNullMember(levies, "ia")

\* C13 as amended: the default completion sets every mib or ia that is
\* present and null to 0.0, and removes the levies object only when it has
\* neither a mib nor an ia member; a surviving levies object holds no null
\* mib or ia.
C13_LevyCleanup ==
    /\ AtFill =>
          LET before == get_path(data, p_levies)
              filled == fill_missing_required_fields(data)
          IN  before.t = "dict" /\ filled # Raised =>
                  IF "mib" \notin DOMAIN before.m /\ "ia" \notin DOMAIN before.m
                  THEN get_path(filled, p_levies) = Absent
                  ELSE get_path(filled, p_levies) = Backfilled(before)
    /\ Returned =>
          LET levies == get_path(data, p_levies)
          IN  levies.t = "dict" =>
                  /\ \A k \in LevyMembers \cap DOMAIN levies.m : levies.m[k] # [t |-> "None"]
                  /\ LevyMembers \cap DOMAIN levies.m # {}

\* A returned Document of the response levies.mib: N/A, levies.ia: N/A: the
\* levies object is kept with both members 0.0
C13_Witness ==
    /\ Returned
    /\ response = <<Line(p_mib, N_A), Line(p_ia, N_A)>>
    /\ get_path(data, p_levies) = [t |-> "dict", m |-> [k \in LevyMembers |-> LevyZero]]

(***************************************************************************)
(* Claims about repeated paths, checked under SpecRepeated                 *)
(***************************************************************************)
\* The paths that several lines of the response assign
RepeatedPaths(lines) ==
    { lines[i].keys : i \in {j \in DOMAIN lines :
        ~lines[j].skip /\ Cardinality(LinesFor(lines, lines[j].keys)) >= 2} }

\* What the last line for the path p stores
LastCoerced(lines, p) == coerce(FinalKey(p), lines[Last(LinesFor(lines, p))].value)

\* A line after the last line for p assigns a path above p
AssignedAboveLater(lines, p) ==
    \E i \in DOMAIN lines :
        /\ i > Last(LinesFor(lines, p))
        /\ ~lines[i].skip
        /\ lines[i].keys # p /\ IsPrefix(lines[i].keys, p)

\* C21 as stated: when several lines of the response that pass the line
\* filter have the same dotted path, the value at that path before the
\* default completion is the coercion of the last of them.
C21_LastWriteWinsAlways ==
    AtFill =>
        LET lines == ParsedLines
        IN  \A p \in RepeatedPaths(lines) : get_path(data, p) = LastCoerced(lines, p)

\* C21 as amended: the same, provided no later line assigns a path above
\* the repeated one; and where the last line for a required numeric field
\* coerces to null, the returned Document holds the default of the field.
C21_LastWriteWins ==
    LET lines == ParsedLines
    IN  \A p \in RepeatedPaths(lines) :
            ~AssignedAboveLater(lines, p) =>
                /\ AtFill => get_path(data, p) = LastCoerced(lines, p)
                /\ Returned /\ p \in RequiredFloatPaths /\ LastCoerced(lines, p) = NoneV
                       => get_path(data, p) = ClaimedDefault(p)

\* The end of the loop over a response whose premium amount is first a
\* parsed number and then unparseable: the path holds null
C21_Witness ==
    /\ AtFill
    /\ response = <<Line(p_premiumAmount, v_HKD5500), Line(p_premiumAmount, v_12x)>>
    /\ get_path(data, p_premiumAmount) = NoneV

\* The final segments that a coercion policy names
PolicySegments ==
    ListFields \cup CurrencyFields \cup SentinelStringFields
        \cup {"yearOfManufacture", "seatingCapacity", "ia"}

\* The lines the loop has applied whose assignment still stands: no later
\* applied line assigns the same path or a path above it
Standing(lines) ==
    { i \in 1..(lineNo - 1) :
        /\ ~lines[i].skip
        /\ \A j \in (i + 1)..(lineNo - 1) :
              lines[j].skip \/ ~IsPrefix(lines[j].keys, lines[i].keys) }

\* C22: the leaf that a line stores depends on the final segment of its
\* path and on its value only, whatever the parents and the depth, the
\* intermediate mappings being created; a path whose final segment no
\* policy names is stored as well, as null for "N/A" and as written
\* otherwise.
C22_KeyedByFinalSegment ==
    AtLine =>
        LET lines == ParsedLines
            standing == Standing(lines)
            stored(i) == get_path(data, lines[i].keys)
        IN  \A i \in standing :
                /\ stored(i) # Absent
                /\ FinalKey(lines[i].keys) \notin PolicySegments =>
                      stored(i) = IF lines[i].value = N_A THEN NoneV
                                  ELSE StrV(lines[i].value)
                /\ \A j \in standing :
                      /\ FinalKey(lines[j].keys) = FinalKey(lines[i].keys)
                      /\ lines[j].value = lines[i].value
                      => stored(j) = stored(i)

\* The loop has stored the same premium under premiumAndDiscounts and two
\* levels below a new mapping, and "N/A" as a name at the top level and as
\* null at the path deep
C22_Witness ==
    /\ AtLine
    /\ get_path(data, p_premiumAmount) = FloatV(5500, 0)
    /\ get_path(data, <<"other", "deep", "premiumAmount">>) = FloatV(5500, 0)
    /\ \/ get_path(data, <<"name">>) = [t |-> "str", s |-> "N/A"]
       \/ get_path(data, <<"deep">>) = NoneV

(***************************************************************************)
(* Claims about the default completion, checked under SpecCompleted        *)
(***************************************************************************)
\* Every path of a document, the paths of its mappings included
RECURSIVE PathsOf(_)
PathsOf(node) ==
    IF ~IsDict(node) THEN {<<>>}
    ELSE {<<>>} \cup UNION { { <<k>> \o p : p \in PathsOf(node.m[k]) } : k \in DOMAIN node.m }

\* The mappings the completion may create
SectionPaths ==
    { <<"policyholder">>, <<"vehicle">>, <<"coverage">>,
      <<"coverage", "liabilityLimits">>, <<"coverage", "excess">>,
      <<"premiumAndDiscounts">>, <<"insurerAndPolicyDetails">>,
      <<"insurerAndPolicyDetails", "periodOfInsurance">> }

\* The completion kept what the path p held before
Kept(before, after, p) ==
    IF IsDict(get_path(before, p)) THEN IsDict(get_path(after, p))
    ELSE get_path(after, p) = get_path(before, p)

\* What the completion may put at a path p that it changed
Added(before, after, p) ==
    LET was == get_path(before, p)
        is == get_path(after, p)
    IN  \/ p \in RequiredPaths /\ was \in {Absent, NoneV} /\ is = ClaimedDefault(p)
        \/ p \in {p_mib, p_ia} /\ was = NoneV /\ is = FloatV(0, 0)
        \/ p \in SectionPaths /\ was = Absent /\ is = EmptyDict

\* C23: when the default completion completes, every path that held a
\* value other than null before it holds the same value after it (a mapping
\* is still a mapping), unless the levies object was removed and the path
\* lies in it; and every path of the result that is new or changed is a
\* required path that was absent or null and holds its default, a null mib
\* or ia that holds 0.0, or a new section mapping.
C23_CompletionKeepsValues ==
    AtFill =>
        LET before == data
            after == fill_missing_required_fields(data)
            removed == get_path(before, p_levies) # Absent
                          /\ get_path(after, p_levies) = Absent
        IN  after # Raised =>
                /\ \A p \in PathsOf(before) :
                      get_path(before, p) # NoneV /\ ~(removed /\ IsPrefix(p_levies, p))
                          => Kept(before, after, p)
                /\ \A p \in PathsOf(after) :
                      Kept(before, after, p) \/ Added(before, after, p)

\* The returned Document of a response with a no-claim discount of 0 and
\* named drivers of "N/A": the integer 0 and the empty list are still there
C23_Witness ==
    /\ Returned
    /\ response = <<Line(p_noClaimDiscount, <<"0">>), Line(p_namedDrivers, N_A)>>
    /\ get_path(data, p_noClaimDiscount) = IntV(0)
    /\ get_path(data, p_namedDrivers) = [t |-> "list", items |-> <<>>]

\* C24: in every Document that parse returns, each required string field
\* holds a string and each required numeric field holds a number; none holds
\* a mapping or a list, whatever lines extend below a required leaf.
C24_TypedCompleteness ==
    Returned =>
        /\ \A p \in RequiredStringPaths \cup {p_limitationsOnUse, p_authorizedDrivers} :
              get_path(data, p).t = "str"
        /\ \A p \in RequiredIntegerPaths \cup RequiredFloatPaths :
              get_path(data, p).t \in {"int", "float"}

(***************************************************************************)
(* Claims about extract_text_from_pdf, checked under SpecAcquire           *)
(***************************************************************************)
HasReturned == apc = "returned"
AfterDirect ==
    apc \in {"decide", "ocr_convert", "ocr_languages", "ocr_pages", "compare", "returned"}
AfterOcr == apc \in {"compare", "returned"}

DirectLength == length(text_strip(text_content))
OcrLength == length(text_strip(ocr_text))

\* C4: the OCR text is returned if and only if use_ocr is true, the stripped
\* direct text is shorter than 100 and the stripped OCR text is strictly
\* longer than 1.5 times the stripped direct text; in every other case the
\* direct text is returned unchanged.
C4_DecisionRule ==
    HasReturned =>
        LET fallback == /\ use_ocr
                        /\ DirectLength < 100
                        /\ 2 * OcrLength > 3 * DirectLength
        IN  /\ fallback => result = ocr_text /\ result # text_content
            /\ ~fallback => result = text_content

\* Direct extraction of 40 characters and OCR of 80: the OCR text is returned
C4_Witness ==
    /\ HasReturned /\ use_ocr
    /\ DirectLength = 40 /\ OcrLength = 80
    /\ result = ocr_text

\* The parts of the pages of a history that returned a text to keep
RECURSIVE kept_direct(_, _)
kept_direct(seen, k) ==
    IF k > Len(seen) THEN <<>>
    ELSE (IF seen[k].ok /\ length(seen[k].text) > 0
          THEN <<page_part(k, seen[k].text)>> ELSE <<>>)
         \o kept_direct(seen, k + 1)

RECURSIVE kept_ocr(_, _)
kept_ocr(seen, k) ==
    IF k > Len(seen) THEN <<>>
    ELSE LET got == IF seen[k].first.ok THEN seen[k].first ELSE seen[k].again
         IN  (IF got.ok /\ length(text_strip(got.text)) > 0
              THEN <<page_part(k, got.text)>> ELSE <<>>)
             \o kept_ocr(seen, k + 1)

\* C5: a missing file raises FileNotFoundError before either extraction
\* runs, and nothing else raises; a page that fails in the direct path or in
\* the OCR path is only left out of the text; when direct extraction fails
\* as a whole its text is empty and OCR is still tried when use_ocr is true;
\* when OCR fails as a whole its text is empty and the direct text is returned.
C5_FailureSemantics ==
    /\ apc = "raised" <=> (~pdf.exists /\ apc # "start")
    /\ ~pdf.exists => calls = {}
    /\ AfterDirect => text_content = join_parts(kept_direct(direct_seen, 1))
    /\ AfterOcr => ocr_text = join_parts(kept_ocr(ocr_seen, 1))
    /\ "pdfplumber.open raised" \in calls =>
          /\ AfterDirect => text_content = <<>>
          /\ HasReturned /\ use_ocr => "convert_from_path" \in calls
    /\ "convert_from_path raised" \in calls =>
          /\ AfterOcr => ocr_text = <<>>
          /\ HasReturned => result = text_content

\* A page failed in the direct path and another gave text, then OCR failed as
\* a whole: the text of the other page is returned
C5_Witness ==
    /\ HasReturned
    /\ \E k \in 1..Len(direct_seen) : ~direct_seen[k].ok
    /\ "convert_from_path raised" \in calls
    /\ result = text_content /\ length(result) > 0

(***************************************************************************)
(* Claims about validate_extracted_data, checked under SpecValidate        *)
(***************************************************************************)
HasValidated == vpc = "done"
TheResult == returned.result

\* The schema that validator.json holds, when it holds one that
\* check_schema accepts
HoldsSchema == schema_file.kind = "json" /\ schema_file.content # InvalidSchema
\* The document violates the schema
Violates == HoldsSchema /\ violations(document, schema_file.content, <<>>) # {}

\* The subschema that a schema declares for a property, Absent without one
PropertySchema(s, key) ==
    IF s = Absent \/ s.kind # "mapping" \/ ~s.has_properties
       \/ ~\E i \in DOMAIN s.properties : s.properties[i][1] = key
    THEN Absent
    ELSE s.properties[CHOOSE i \in DOMAIN s.properties : s.properties[i][1] = key][2]
RECURSIVE SchemaAt(_, _)
SchemaAt(s, keys) ==
    IF keys = <<>> THEN s ELSE SchemaAt(PropertySchema(s, Head(keys)), Tail(keys))
\* The paths of the properties that a schema declares, at every level
RECURSIVE PropertyPaths(_)
PropertyPaths(s) ==
    IF s.kind # "mapping" \/ ~s.has_properties THEN {}
    ELSE UNION {{<<s.properties[i][1]>>} \cup
                {<<s.properties[i][1]>> \o p : p \in PropertyPaths(s.properties[i][2])} :
                i \in DOMAIN s.properties}
DeclaresProperties(s) == s # Absent /\ s.kind = "mapping" /\ s.has_properties
IsRequiredIn(s, key) == \E i \in DOMAIN s.required : s.required[i] = key

\* The levels the scan visits: the top level, and below it a property whose
\* schema declares properties and whose value is a mapping, level by level
VisitedLevels(d, s) ==
    {<<>>} \cup
    {p \in PropertyPaths(s) :
       \A n \in 1..Len(p) :
          /\ DeclaresProperties(SchemaAt(s, SubSeq(p, 1, n)))
          /\ get_path(d, SubSeq(p, 1, n)) # Absent
          /\ IsDict(get_path(d, SubSeq(p, 1, n)))}
\* The fields that a visited level declares required and that are absent or
\* null there
MissingRequired(d, s) ==
    IF ~DeclaresProperties(s) THEN {}
    ELSE {p \in PropertyPaths(s) :
            /\ SubSeq(p, 1, Len(p) - 1) \in VisitedLevels(d, s)
            /\ IsRequiredIn(SchemaAt(s, SubSeq(p, 1, Len(p) - 1)), p[Len(p)])
            /\ get_path(d, p) \in {Absent, NoneV}}
\* The scan meets  "properties" in True  at a visited level
ScanRaises(d, s) ==
    \/ s.kind = "bool"
    \/ \E p \in PropertyPaths(s) :
          /\ SubSeq(p, 1, Len(p) - 1) \in VisitedLevels(d, s)
          /\ SchemaAt(s, p).kind = "bool"
          /\ get_path(d, p) # Absent /\ IsDict(get_path(d, p))

\* p is declared before q: a parent before its children, and the
\* properties of one level in the order of the file
PropertyIndex(s, key) == CHOOSE i \in DOMAIN s.properties : s.properties[i][1] = key
RECURSIVE DeclaredBefore(_, _, _)
DeclaredBefore(s, p, q) ==
    IF p = <<>> THEN q # <<>>
    ELSE IF q = <<>> THEN FALSE
    ELSE IF Head(p) = Head(q)
    THEN DeclaredBefore(PropertySchema(s, Head(p)), Tail(p), Tail(q))
    ELSE PropertyIndex(s, Head(p)) < PropertyIndex(s, Head(q))
RECURSIVE InDeclarationOrder(_, _)
InDeclarationOrder(s, paths) ==
    IF paths = {} THEN <<>>
    ELSE LET first == CHOOSE p \in paths :
                         \A q \in paths \ {p} : DeclaredBefore(s, p, q)
         IN  <<dot_joined(first)>> \o InDeclarationOrder(s, paths \ {first})

\* What the scan leaves in missing_fields when it is run on the schema of
\* the file: the whole list, or what it had listed when it failed
ScanList == check_missing_fields(document, schema_file.content, <<>>, "").missing

\* C14: whenever the document violates the schema, the result is invalid,
\* errors holds exactly one string "<path>: <message>" for a violation, with
\* the segments of the violating location joined by '.' (root at the top
\* level), and missing_fields holds the result of the missing-field scan
C14_DotPathError ==
    HasValidated /\ Violates =>
        /\ TheResult.is_valid = FALSE
        /\ Len(TheResult.errors) = 1
        /\ \E v \in violations(document, schema_file.content, <<>>) :
              TheResult.errors[1] =
                  (IF v.path = <<>> THEN "root" ELSE dot_joined(v.path))
                  \o ": " \o v.message
        /\ TheResult.missing_fields = ScanList

\* C14 (amended): the same, with the segments joined by " -> ", and with
\* missing_fields the list in declaration order of the missing required
\* fields when the scan completes, and what the scan had listed when it fails
C14_ArrowPathError ==
    HasValidated /\ Violates =>
        /\ TheResult.is_valid = FALSE
        /\ Len(TheResult.errors) = 1
        /\ \E v \in violations(document, schema_file.content, <<>>) :
              TheResult.errors[1] =
                  (IF v.path = <<>> THEN "root" ELSE arrow_joined(v.path))
                  \o ": " \o v.message
        /\ IF ScanRaises(document, schema_file.content)
           THEN TheResult.missing_fields = ScanList
           ELSE TheResult.missing_fields =
                    InDeclarationOrder(schema_file.content,
                        MissingRequired(document, schema_file.content))

\* A violation two levels down: yearOfManufacture holds a string
C14_Witness ==
    /\ HasValidated
    /\ schema_file = FileOf(PolicySchema)
    /\ document = edited(valid_data, q_yearOfManufacture, Str("2020"))
    /\ TheResult.errors =
           <<"vehicle -> yearOfManufacture: '2020' is not of type 'integer'">>
    /\ TheResult.missing_fields = <<>>

\* C15: when the scan completes, missing_fields is exactly the list, in
\* declaration order with a parent before its children, of the dotted paths
\* of the fields that a visited level declares required and that are absent
\* or null there; a required field with a value that is not null is not listed
C15_MissingFields ==
    HasValidated /\ HoldsSchema /\ ~ScanRaises(document, schema_file.content) =>
        LET s == schema_file.content
        IN  /\ TheResult.missing_fields =
                   InDeclarationOrder(s, MissingRequired(document, s))
            /\ \A p \in PropertyPaths(s) :
                  get_path(document, p) \notin {Absent, NoneV} =>
                      \A i \in DOMAIN TheResult.missing_fields :
                          TheResult.missing_fields[i] # dot_joined(p)

\* A parent and, under another parent, a child: policyholder is null and
\* periodOfInsurance has no end
C15_Witness ==
    /\ HasValidated
    /\ schema_file = FileOf(PolicySchema)
    /\ document = edited(edited(valid_data, <<"policyholder">>, NoneV), q_end, Absent)
    /\ TheResult.missing_fields =
           <<"policyholder", "insurerAndPolicyDetails.periodOfInsurance.end">>

\* The field at p is required at its level of the policy schema
RequiredField(p) ==
    IsRequiredIn(SchemaAt(PolicySchema, SubSeq(p, 1, Len(p) - 1)), p[Len(p)])
\* Every ancestor of the field at p is present as a mapping
AncestorsAreMappings(d, p) ==
    \A n \in 1..(Len(p) - 1) :
        get_path(d, SubSeq(p, 1, n)) # Absent /\ IsDict(get_path(d, SubSeq(p, 1, n)))
ListedMissing == {TheResult.missing_fields[i] : i \in DOMAIN TheResult.missing_fields}

\* C16: under the policy schema, for a document that lacks a required field
\* while all of the field's ancestors are present as mappings, the result is
\* invalid and missing_fields is not empty and holds the field's dotted path
C16_AbsentRequiredReported ==
    HasValidated /\ schema_file = FileOf(PolicySchema) =>
        \A p \in PropertyPaths(PolicySchema) :
            /\ RequiredField(p)
            /\ AncestorsAreMappings(document, p)
            /\ get_path(document, p) = Absent
            => /\ TheResult.is_valid = FALSE
               /\ TheResult.missing_fields # <<>>
               /\ dot_joined(p) \in ListedMissing

\* vehicle is there and vehicle.yearOfManufacture is not
C16_Witness ==
    /\ HasValidated
    /\ schema_file = FileOf(PolicySchema)
    /\ document = edited(valid_data, q_yearOfManufacture, Absent)
    /\ TheResult.is_valid = FALSE
    /\ TheResult.missing_fields = <<"vehicle.yearOfManufacture">>

\* Every field of the document that the policy schema declares has one of
\* the types declared for it, and every field required under a mapping that
\* is there, is there and not null
Conforms(d) ==
    \A p \in PropertyPaths(PolicySchema) :
        LET value == get_path(d, p)
            types == SchemaAt(PolicySchema, p).types
        IN  /\ value # Absent => \E i \in DOMAIN types : is_type(value, types[i])
            /\ RequiredField(p) /\ AncestorsAreMappings(d, p)
               => value \notin {Absent, NoneV}

\* C17: under the policy schema, for a document in which every required
\* field is present, not null and of the schema's type, the document itself
\* is returned with a result that is valid, with no errors and no missing
\* fields
C17_ValidDocumentAccepted ==
    HasValidated /\ schema_file = FileOf(PolicySchema) /\ Conforms(document) =>
        /\ returned.data = document
        /\ returned.data # NoneV
        /\ TheResult.is_valid = TRUE
        /\ TheResult.errors = <<>>
        /\ TheResult.missing_fields = <<>>

\* The document of test_schema_validation
C17_Witness ==
    /\ HasValidated
    /\ schema_file = FileOf(PolicySchema)
    /\ document = valid_data
    /\ Conforms(document)
    /\ returned = [data |-> valid_data, result |-> ValidationResult(TRUE, <<>>, <<>>)]

\* The validator itself fails: no schema file, a file that is no JSON, a
\* schema that check_schema rejects, or an exception in the scan
InternalFailure ==
    \/ schema_file.kind \in {"missing", "malformed"}
    \/ schema_file.content = InvalidSchema
    \/ ScanRaises(document, schema_file.content)
GenericError == "Unexpected validation error: " \o exc.message

\* C18: whenever the validator itself fails, validate_extracted_data returns
\* the document with a result that is invalid and whose errors list holds
\* the generic error string
C18_GenericErrorReported ==
    HasValidated /\ InternalFailure =>
        /\ returned.data = document
        /\ TheResult.is_valid = FALSE
        /\ TheResult.errors = <<GenericError>>

\* C18 (amended): the same, except that an exception of the scan that
\* follows a schema violation is passed over: errors then holds the string
\* of the violation alone
C18_FailureReported ==
    HasValidated /\ InternalFailure =>
        /\ returned.data = document
        /\ TheResult.is_valid = FALSE
        /\ IF exc.type = "ValidationError"
           THEN /\ Violates /\ ScanRaises(document, schema_file.content)
                /\ TheResult.errors = <<error_msg(exc)>>
           ELSE TheResult.errors = <<GenericError>>

\* The scan fails on a valid document: excess is a mapping and its schema
\* is  true
C18_Witness ==
    /\ HasValidated
    /\ schema_file = FileOf(OpenExcessSchema)
    /\ document = valid_data
    /\ exc.type = "TypeError"
    /\ TheResult = ValidationResult(FALSE,
           <<"Unexpected validation error: argument of type 'bool' is not iterable">>,
           <<>>)

(***************************************************************************)
(* Claims about extract_policy, checked under SpecBoundary                 *)
(***************************************************************************)
Invoked(stage) == \E i \in DOMAIN invoked : invoked[i] = stage
InvokedBefore(first, second) ==
    \A j \in DOMAIN invoked :
        invoked[j] = second => \E i \in 1..(j - 1) : invoked[i] = first
Responded == bpc = "done"
\* The text that extract_text_from_pdf returned
AcquiredText == IF bpc = "acquiring" THEN result ELSE pdf_text
StrippedLength == length(text_strip(AcquiredText))
\* The acquisition raised, or returned a text below the minimum length
AcquisitionFailed ==
    \/ apc = "raised"
    \/ apc = "returned" /\ StrippedLength < MIN_TEXT_LENGTH
AcquisitionSucceeded == apc = "returned" /\ StrippedLength >= MIN_TEXT_LENGTH
\* The endpoint went on to step 2 and no response text reached the parser
GenerationFailed ==
    Responded /\ AcquisitionSucceeded /\ ~Invoked("_parse_key_value_pairs")
ReturnsDocument == "content" \in DOMAIN http

\* C19: the generation is invoked only after the acquisition has returned
\* a text of at least 50 stripped characters, and the validation only after
\* generation and parsing have succeeded; a failed acquisition is answered
\* with 422 and neither of them is invoked; a failed or empty generation is
\* answered with 500, without validation and without a document
C19_StageOrdering ==
    /\ Invoked("chat.completions.create") =>
          /\ AcquisitionSucceeded
          /\ InvokedBefore("extract_text_from_pdf", "chat.completions.create")
    /\ Invoked("validate_and_format") =>
          /\ pc = "done" /\ extracted_data = data
          /\ InvokedBefore("chat.completions.create", "_parse_key_value_pairs")
          /\ InvokedBefore("_parse_key_value_pairs", "validate_and_format")
    /\ AcquisitionFailed =>
          /\ ~Invoked("chat.completions.create")
          /\ ~Invoked("validate_and_format")
          /\ Responded => http = HTTPException(422, "Failed to extract text from PDF")
    /\ GenerationFailed =>
          /\ http.status_code = 500
          /\ ~Invoked("validate_and_format")
          /\ ~ReturnsDocument /\ extracted_data = NoValue

\* A text of 40 stripped characters has been rejected with 422
C19_Witness ==
    /\ Responded
    /\ apc = "returned" /\ StrippedLength = 40
    /\ http.status_code = 422
    /\ invoked = <<"extract_text_from_pdf">>

\* C20: whenever the acquisition and the generation and parsing have
\* succeeded, the response has success = true, the parser's document as
\* data, and the validator's is_valid, errors and missing_fields, with a
\* warning and no error when the result is invalid
C20_ValidationNonFatal ==
    Responded /\ AcquisitionSucceeded /\ Invoked("_parse_key_value_pairs")
        /\ pc = "done" =>
        /\ http.status_code = 200
        /\ ReturnsDocument
        /\ http.content.success = TRUE
        /\ http.content.data = data
        /\ http.content.validation =
               [is_valid |-> TheResult.is_valid, errors |-> TheResult.errors,
                missing_fields |-> TheResult.missing_fields]
        /\ (http.content.warnings # NoWarnings) <=> ~TheResult.is_valid
\* The request has passed the .pdf filename check
PassedFilenameCheck == bpc # "start" /\ http # HTTPException(400, "File must be a PDF (.pdf extension required)")

\* C25: every request that passes the filename check has, when it finishes,
\* deleted its temporary file or attempted the deletion, and the file is
\* gone when the deletion succeeded; and the cleanup leaves the response or
\* exception of the request as it is.
C25_TempFileCleanup ==
    /\ [](Responded /\ PassedFilenameCheck =>
             /\ unlink \in {"done", "raised"}
             /\ unlink = "done" => tmp_file = "deleted")
    /\ [][bpc = "finally" => http' = http]_vars

====
